---------------------------- MODULE Spec2Model ----------------------------
(***************************************************************************)
(* A model of rng-query: the separator-aware line tokenizer (parse.rs),    *)
(* the options grammar and the query interpreter State (lib.rs), and the   *)
(* expression recognizers (entry.rs, dice.rs, interval.rs).                *)
(*                                                                         *)
(* Text is modelled as a sequence of characters, each character a string   *)
(* of its own: the line  a, b  is <<"a", ",", " ", "b">>.  Offsets count   *)
(* characters; every character of the model is one byte in UTF-8 except    *)
(* where noted.                                                            *)
(***************************************************************************)
EXTENDS Integers, Sequences, FiniteSets, TLC

VARIABLES
    split,      \* the SplitParts iterator of parse.rs with the parts it emitted
    task,       \* a pure function's input and its result
    state,      \* a State of lib.rs
    twin,       \* a second State, given the calls `state` is given
    ret,        \* what the last call on `state`, or the last run, returned
    ret2        \* what the last call on `twin`, or its caller's last run, returned

vars == <<split, task, state, twin, ret, ret2>>

interpreter == <<state, twin, ret, ret2>>

-----------------------------------------------------------------------------
(* Characters and strings                                                  *)

\* The characters char::is_whitespace holds of (Unicode White_Space), as far
\* as the model's alphabet goes.  "VT" is U+000B, "NBSP" is U+00A0.
White_Space == {" ", "\t", "\f", "\r", "VT", "NBSP"}

\* char::is_ascii_whitespace: space, tab, line feed, form feed, carriage
\* return.  U+000B is not among them.
AsciiWhitespace == {" ", "\t", "\n", "\f", "\r"}

Digits == {"0", "1", "2", "3", "4", "5", "6", "7", "8", "9"}

RECURSIVE TrimStartIn(_, _)
\* str::trim_start_matches with a set of characters to drop
TrimStartIn(s, drop) ==
    IF s # <<>> /\ Head(s) \in drop THEN TrimStartIn(Tail(s), drop) ELSE s

RECURSIVE TrimEndIn(_, _)
\* str::trim_end_matches with a set of characters to drop
TrimEndIn(s, drop) ==
    IF s # <<>> /\ s[Len(s)] \in drop
    THEN TrimEndIn(SubSeq(s, 1, Len(s) - 1), drop)
    ELSE s

\* str::trim
Trim(s) == TrimEndIn(TrimStartIn(s, White_Space), White_Space)

\* the number of occurrences of character c in s
CountChar(s, c) == Cardinality({i \in 1..Len(s) : s[i] = c})

\* the index of the first occurrence of c in s after index from; 0 when none
FindFrom(s, c, from) ==
    LET hits == {i \in (from + 1)..Len(s) : s[i] = c}
    IN  IF hits = {} THEN 0 ELSE CHOOSE i \in hits : \A j \in hits : i <= j

-----------------------------------------------------------------------------
(* parse.rs: the tokenizer                                                 *)

DefaultSeparators == [stmt |-> ";", entry |-> ",", options |-> "/"]

Openers == {"(", "[", "{"}
Closers == {")", "]", "}"}

Nest_from_char(c) ==
    CASE c \in {"(", ")"} -> "Paren"
      [] c \in {"[", "]"} -> "Square"
      [] c \in {"{", "}"} -> "Curly"

Nest_repr(n) ==
    CASE n = "Paren"  -> "parenthesis"
      [] n = "Square" -> "square brackets"
      [] n = "Curly"  -> "curly braces"

\* Nest::matches without the pairing of round with square brackets
Nest_matches_same(self, other) == self = other

Nest_matches(self, other) ==
    IF self = other THEN TRUE
    ELSE IF self \in {"Paren", "Square"} THEN other \in {"Paren", "Square"}
    ELSE FALSE

trim_entry(entry, sep) ==
    LET e == Trim(TrimEndIn(entry, {sep}))
    IN  IF /\ e # <<>>
           /\ Head(e) = "\""
           /\ e[Len(e)] = "\""
           /\ CountChar(e, "\"") = 2
        THEN Trim(TrimEndIn(TrimStartIn(e, {"\""}), {"\""}))
        ELSE e

NoError == [kind |-> "None", at |-> 0, what |-> ""]
UnclosedString(start) == [kind |-> "UnclosedString", at |-> start, what |-> ""]
UnbalancedNesting(problem, what) ==
    [kind |-> "UnbalancedNesting", at |-> problem, what |-> what]

\* A QueryPart, with the slice of the line it was cut from: the characters
\* from + 1 .. to
Part(kind, text, from, to) == [part |-> kind, text |-> text, from |-> from, to |-> to]

\* A separator that took effect: the character sep at offset at ended the
\* slice that starts after offset from, while the iterator was in mode
Cut(sep, from, at, mode) == [sep |-> sep, from |-> from, at |-> at, mode |-> mode]

\* SplitParts::new, with the iterator state of split_line_parts around it:
\*   chars     the number of characters consumed (current_offset)
\*   nest      next_entry's local stack of open brackets
\*   scanning  inside a call of next_entry, past its first character
\*   out       the parts emitted so far;  err  the error emitted, if any
\*   cuts      the separators that took effect so far
\*   done      the iterator returned None, or stopped after an error
SplitParts_new(line, sep) ==
    [line |-> line, sep |-> sep, last_end |-> 0, chars |-> 0, mode |-> "Entry",
     nest |-> <<>>, scanning |-> FALSE, out |-> <<>>, cuts |-> <<>>,
     err |-> NoError, done |-> FALSE]

Emit(sp, part) == [sp EXCEPT !.out = Append(@, part), !.scanning = FALSE,
                             !.nest = <<>>]

Fail(sp, e) == [sp EXCEPT !.err = e, !.done = TRUE, !.scanning = FALSE]

\* a consume_options that would go back to entries after a statement separator
consume_options_entry(sp) ==
    LET hit   == FindFrom(sp.line, sp.sep.stmt, sp.chars)
        cur   == IF hit = 0 THEN Len(sp.line) ELSE hit
        slice == SubSeq(sp.line, sp.last_end + 1, cur)
        text  == Trim(TrimEndIn(slice, {sp.sep.stmt}))
    IN  Emit([sp EXCEPT !.chars = cur, !.last_end = cur, !.mode = "Entry"],
             Part("Options", text, sp.last_end, cur))

\* consume_options: everything up to the next statement separator (or the end
\* of the line) is one Options part; nesting and quotes are not looked at.
consume_options(sp) ==
    LET hit   == FindFrom(sp.line, sp.sep.stmt, sp.chars)
        cur   == IF hit = 0 THEN Len(sp.line) ELSE hit
        slice == SubSeq(sp.line, sp.last_end + 1, cur)
        text  == Trim(TrimEndIn(slice, {sp.sep.stmt}))
    IN  Emit([sp EXCEPT !.chars = cur, !.last_end = cur,
                        !.mode = IF hit = 0 THEN "Entry" ELSE "EndStmt",
                        !.cuts = IF hit = 0 THEN @
                                 ELSE Append(@, Cut(sp.sep.stmt, sp.last_end, hit,
                                                    "Options"))],
             Part("Options", text, sp.last_end, cur))

\* Iterator::next in Mode::EndStmt
emit_end_stmt(sp) ==
    Emit([sp EXCEPT !.mode = "Entry"], Part("EndStmt", <<>>, sp.chars, sp.chars))

\* next_entry, after its loop ran out of characters
entry_at_eol(sp) ==
    IF sp.nest = <<>>
    THEN Emit([sp EXCEPT !.last_end = Len(sp.line)],
              Part("Entry",
                   trim_entry(SubSeq(sp.line, sp.last_end + 1, Len(sp.line)),
                              sp.sep.entry),
                   sp.last_end, Len(sp.line)))
    ELSE Fail(sp, UnbalancedNesting(Len(sp.line), Nest_repr(sp.nest[Len(sp.nest)])))

\* consume_string, entered with the opening quote at offset cur consumed
consume_string(sp, cur) ==
    LET close == FindFrom(sp.line, "\"", cur)
    IN  IF close = 0
        THEN Fail([sp EXCEPT !.chars = Len(sp.line)], UnclosedString(Len(sp.line)))
        ELSE [sp EXCEPT !.chars = close]

\* the arm of next_entry's match for a closing bracket c at offset cur
on_closer(sp, c, cur) ==
    IF sp.nest = <<>>
    THEN Fail(sp, UnbalancedNesting(cur, Nest_repr(Nest_from_char(c))))
    ELSE IF Nest_matches(sp.nest[Len(sp.nest)], Nest_from_char(c))
    THEN [sp EXCEPT !.nest = SubSeq(@, 1, Len(@) - 1)]
    ELSE Fail(sp, UnbalancedNesting(cur, Nest_repr(sp.nest[Len(sp.nest)])))

\* take_slice and trim_entry at the separator c just consumed: the state with
\* the slice taken, and the entry text
slice_taken(sp, c) ==
    [sp EXCEPT !.last_end = sp.chars,
               !.cuts = Append(@, Cut(c, sp.last_end, sp.chars, "Entry"))]

slice_entry(sp, c) == trim_entry(SubSeq(sp.line, sp.last_end + 1, sp.chars), c)

\* the three separator arms without their guard
stack_is_empty_unguarded(sp) == TRUE

\* the guard `stack.is_empty()` of the three separator arms
stack_is_empty(sp) == sp.nest = <<>>

\* the arms for the options and the statement separator: the mode changes, and
\* an empty entry is skipped (`return self.next()`)
on_mode_sep(sp, c, mode) ==
    IF slice_entry(sp, c) = <<>>
    THEN [slice_taken(sp, c) EXCEPT !.mode = mode, !.scanning = FALSE]
    ELSE Emit([slice_taken(sp, c) EXCEPT !.mode = mode],
              Part("Entry", slice_entry(sp, c), sp.last_end, sp.chars))

\* the arm for the entry separator with the `if e.is_empty()` of the other two
on_entry_sep_skip(sp, c) == on_mode_sep(sp, c, sp.mode)

\* the arm for the entry separator: the entry is returned, empty or not
on_entry_sep(sp, c) ==
    Emit(slice_taken(sp, c), Part("Entry", slice_entry(sp, c), sp.last_end, sp.chars))

\* one turn of next_entry's loop: the character c at offset sp.chars is consumed
scan_char(sp) ==
    LET cur == sp.chars + 1
        c   == sp.line[cur]
        s1  == [sp EXCEPT !.chars = cur, !.scanning = TRUE]
    IN  CASE c = "\"" -> consume_string(s1, cur)
          [] c \in Openers -> [s1 EXCEPT !.nest = Append(@, Nest_from_char(c))]
          [] c \in Closers -> on_closer(s1, c, cur)
          [] c \notin Openers \cup Closers \cup {"\""}
             /\ c = sp.sep.entry /\ stack_is_empty(sp) -> on_entry_sep(s1, c)
          [] c \notin Openers \cup Closers \cup {"\""}
             /\ c # sp.sep.entry
             /\ c = sp.sep.options /\ stack_is_empty(sp) ->
              on_mode_sep(s1, c, "Options")
          [] c \notin Openers \cup Closers \cup {"\""}
             /\ c # sp.sep.entry /\ c # sp.sep.options
             /\ c = sp.sep.stmt /\ stack_is_empty(sp) ->
              on_mode_sep(s1, c, "EndStmt")
          [] OTHER -> s1

\* next_entry: returns None on an exhausted line, else scans on
next_entry(sp) ==
    IF sp.chars >= Len(sp.line)
    THEN IF sp.scanning THEN entry_at_eol(sp) ELSE [sp EXCEPT !.done = TRUE]
    ELSE scan_char(sp)

\* Iterator::next for SplitParts, one step of it
SplitParts_next(sp) ==
    CASE sp.mode = "Options" -> consume_options(sp)
      [] sp.mode = "EndStmt" -> emit_end_stmt(sp)
      [] sp.mode = "Entry"   -> next_entry(sp)

RECURSIVE RunSplit(_)
RunSplit(sp) == IF sp.done THEN sp ELSE RunSplit(SplitParts_next(sp))

\* split_line_parts(line, sep), collected: the parts in order and the error
\* that ended them, if any
split_line_parts(line, sep) == RunSplit(SplitParts_new(line, sep))

-----------------------------------------------------------------------------
(* lib.rs: Options                                                         *)

DigitVal(c) ==
    CASE c = "0" -> 0 [] c = "1" -> 1 [] c = "2" -> 2 [] c = "3" -> 3
      [] c = "4" -> 4 [] c = "5" -> 5 [] c = "6" -> 6 [] c = "7" -> 7
      [] c = "8" -> 8 [] c = "9" -> 9

\* u32::MAX in decimal, the largest amount `parse::<u32>` accepts (the number
\* itself is beyond the integers TLC computes with)
U32MaxDigits == <<"4", "2", "9", "4", "9", "6", "7", "2", "9", "5">>

RECURSIVE DecGreater(_, _)
\* a > b, for strings of decimal digits without leading zeros
DecGreater(a, b) ==
    IF Len(a) # Len(b) THEN Len(a) > Len(b)
    ELSE IF a = <<>> THEN FALSE
    ELSE IF Head(a) # Head(b) THEN DigitVal(Head(a)) > DigitVal(Head(b))
    ELSE DecGreater(Tail(a), Tail(b))

RECURSIVE DecValue(_)
\* the value of a string of decimal digits
DecValue(s) ==
    IF s = <<>> THEN 0
    ELSE 10 * DecValue(SubSeq(s, 1, Len(s) - 1)) + DigitVal(s[Len(s)])

\* the length of the longest prefix of s made of characters of set
PrefixIn(s, set) ==
    IF \A i \in 1..Len(s) : s[i] \in set THEN Len(s)
    ELSE (CHOOSE i \in 1..Len(s) : s[i] \notin set /\ \A j \in 1..(i - 1) : s[j] \in set) - 1

StartsWith(s, prefix) ==
    Len(s) >= Len(prefix) /\ SubSeq(s, 1, Len(prefix)) = prefix

Amount_All == [all |-> TRUE, n |-> 0]
Amount_N(n) == [all |-> FALSE, n |-> n]

Options_new(amount, repeating, eval_expr, keep_order, push) ==
    [ok |-> TRUE, error |-> "", amount |-> amount, repeating |-> repeating,
     eval_expr |-> eval_expr, keep_order |-> keep_order, push |-> push]

\* Error::Options(message); only the kind of message is kept
Error_Options(msg) ==
    [ok |-> FALSE, error |-> msg, amount |-> Amount_N(0), repeating |-> FALSE,
     eval_expr |-> "Auto", keep_order |-> FALSE, push |-> FALSE]

\* impl Default for Options.  eval_expr is "Auto", or "True" / "False" for
\* EvalExpr::Custom(true) / Custom(false).
Options_default == Options_new(Amount_N(1), FALSE, "Auto", FALSE, FALSE)

FlagChars == {"r", "e", "E", "o", "p"}

\* The captures of the options regex
\*   \A(all\s|0|(?:[1-9][0-9]*))?\s*([\sreEop]*)\z
\* on s: group 1 (the amount with what `all\s` took), and group 2 (the flags).
\* No backtracking can rescue a failed match: the amount's characters are not
\* in the class of group 2.
OptionsCaptures(s) ==
    LET all  == <<"a", "l", "l">>
        len1 == IF StartsWith(s, all) /\ Len(s) >= 4 /\ s[4] \in White_Space THEN 4
                ELSE IF s # <<>> /\ s[1] = "0" THEN 1
                ELSE IF s # <<>> /\ s[1] \in Digits THEN PrefixIn(s, Digits)
                ELSE 0
        rest == SubSeq(s, len1 + 1, Len(s))
        ws   == PrefixIn(rest, White_Space)
    IN  [matched |-> \A i \in 1..Len(rest) : rest[i] \in White_Space \cup FlagChars,
         amount  |-> SubSeq(s, 1, len1),
         flags   |-> SubSeq(rest, ws + 1, Len(rest))]

\* the flags of group 2 with the ASCII whitespace filtered out
FlagsFiltered(flags) == SelectSeq(flags, LAMBDA c : c \notin AsciiWhitespace)

\* `flags.sort(); flags.dedup()` shortened the vector
HasDuplicates(flags) ==
    \E i, j \in 1..Len(flags) : i < j /\ flags[i] = flags[j]

Contains(flags, c) == \E i \in 1..Len(flags) : flags[i] = c

\* impl FromStr for Options
Options_from_str(s) ==
    IF s = <<"s", "h", "u", "f", "f", "l", "e">>
    THEN Options_new(Amount_All, FALSE, "False", FALSE, FALSE)
    ELSE IF s = <<"l", "i", "s", "t">>
    THEN Options_new(Amount_All, FALSE, "False", TRUE, FALSE)
    ELSE IF s = <<"e", "v", "a", "l">>
    THEN Options_new(Amount_All, FALSE, "True", TRUE, FALSE)
    ELSE
    LET cap    == OptionsCaptures(s)
        amt    == TrimEndIn(cap.amount, White_Space)
        flags  == FlagsFiltered(cap.flags)
        e      == Contains(flags, "e")
        not_e  == Contains(flags, "E")
    IN  IF ~cap.matched THEN Error_Options("Bad options")
        ELSE IF amt # <<>> /\ amt # <<"a", "l", "l">> /\ DecGreater(amt, U32MaxDigits)
        THEN Error_Options("Bad amount")
        ELSE IF HasDuplicates(flags) THEN Error_Options("Duplicate flags")
        ELSE IF e /\ not_e THEN Error_Options("Flags 'e' and 'E' are incompatible")
        ELSE Options_new(
                IF amt = <<"a", "l", "l">> THEN Amount_All
                ELSE IF amt = <<>> THEN Amount_N(1)
                ELSE Amount_N(DecValue(amt)),
                Contains(flags, "r"),
                IF e THEN "True" ELSE IF not_e THEN "False" ELSE "Auto",
                Contains(flags, "o"),
                Contains(flags, "p"))

-----------------------------------------------------------------------------
(* dice.rs: Roll                                                           *)

U16Max == 65535
I32Max == 2147483647

\* `parse::<u16>` (and `parse::<i32>` for a magnitude) succeeds on the digits:
\* leading zeros do not count
DecFits(digits, max) ==
    LET t == TrimStartIn(digits, {"0"})
    IN  Len(t) <= 9 /\ DecValue(t) <= max

ParseOk(v) == [res |-> "Ok", v |-> v]
ParseNoMatch == [res |-> "NoMatch", v |-> <<>>]
ParseInvalid(msg) == [res |-> "Invalid", v |-> msg]

\* The captures of the dice regex
\*   \A(\d+)?d(\d+|%)(!)?(([kd][hl]?)(\d+)?)?((?:[+-]\d+)+)?\z
\* on s.  Every group starts with characters no other group can start with,
\* so the longest match of each in turn is the only match.
RECURSIVE ModifierRuns(_)
\* s split into its runs `[+-]\d+`; <<"bad">> when s is not made of such runs
ModifierRuns(s) ==
    IF s = <<>> THEN <<>>
    ELSE IF Head(s) \notin {"+", "-"} THEN <<"bad">>
    ELSE LET n == PrefixIn(Tail(s), Digits)
         IN  IF n = 0 THEN <<"bad">>
             ELSE LET rest == ModifierRuns(SubSeq(s, n + 2, Len(s)))
                  IN  IF rest = <<"bad">> THEN rest
                      ELSE <<SubSeq(s, 1, n + 1)>> \o rest

RollCaptures(s) ==
    LET modifier(n1, s2, n2, bang, sel, kind, s5, n6) ==
            LET mods == ModifierRuns(SubSeq(s5, n6 + 1, Len(s5)))
            IN  [matched |-> /\ Len(s) > n1 /\ s[n1 + 1] = "d"
                             /\ n2 > 0
                             /\ mods # <<"bad">>,
                 amount |-> SubSeq(s, 1, n1),
                 sides  |-> SubSeq(s2, 1, n2),
                 bang   |-> bang,
                 select |-> sel,
                 kind   |-> kind,
                 selamt |-> SubSeq(s5, 1, n6),
                 mods   |-> mods]
        selamt(n1, s2, n2, bang, sel, kind, s5) ==
            modifier(n1, s2, n2, bang, sel, kind, s5,
                     IF sel THEN PrefixIn(s5, Digits) ELSE 0)
        keep_drop(n1, s2, n2, bang, s4) ==          \* s4: after the `!`
            LET sel  == s4 # <<>> /\ s4[1] \in {"k", "d"}
                kind == IF ~sel THEN <<>>
                        ELSE IF Len(s4) >= 2 /\ s4[2] \in {"h", "l"} THEN SubSeq(s4, 1, 2)
                        ELSE SubSeq(s4, 1, 1)
            IN  selamt(n1, s2, n2, bang, sel, kind, SubSeq(s4, Len(kind) + 1, Len(s4)))
        exploding(n1, s2, n2, s3) ==                \* s3: after the sides
            LET bang == s3 # <<>> /\ s3[1] = "!"
            IN  keep_drop(n1, s2, n2, bang, IF bang THEN Tail(s3) ELSE s3)
        sides(n1, s2) ==                            \* s2: after the `d`
            LET n2 == IF s2 # <<>> /\ s2[1] = "%" THEN 1 ELSE PrefixIn(s2, Digits)
            IN  exploding(n1, s2, n2, SubSeq(s2, n2 + 1, Len(s2)))
        amount(n1) == sides(n1, SubSeq(s, n1 + 2, Len(s)))
    IN  amount(PrefixIn(s, Digits))

\* `+` on i32: the sum wrapped to 32 bits, and whether it overflowed (a panic
\* in a build with overflow checks)
i32_add(a, b) ==
    IF b > 0 /\ a > I32Max - b
    THEN [overflow |-> TRUE, v |-> ((a - I32Max) - 1) + ((b - I32Max) - 1)]
    ELSE IF b < 0 /\ a < ((0 - I32Max) - 1) - b
    THEN [overflow |-> TRUE, v |-> ((a + I32Max) + 1) + ((b + I32Max) + 1)]
    ELSE [overflow |-> FALSE, v |-> a + b]

\* `.sum::<i32>()`, from acc on
RECURSIVE i32_sum(_, _)
i32_sum(q, acc) ==
    LET added(s) == i32_sum(Tail(q), [overflow |-> acc.overflow \/ s.overflow, v |-> s.v])
    IN  IF q = <<>> THEN acc ELSE added(i32_add(acc.v, Head(q)))

\* `parse::<i32>` of one modifier `[+-]\d+`
ModifierFits(m) ==
    LET t == TrimStartIn(Tail(m), {"0"})
    IN  /\ Len(t) <= 10
        /\ ~DecGreater(t, IF Head(m) = "-"
                          THEN <<"2", "1", "4", "7", "4", "8", "3", "6", "4", "8">>
                          ELSE <<"2", "1", "4", "7", "4", "8", "3", "6", "4", "7">>)

I32Min == (0 - I32Max) - 1

ModifierValue(m) ==
    IF Head(m) = "-"
    THEN IF TrimStartIn(Tail(m), {"0"})
               = <<"2", "1", "4", "7", "4", "8", "3", "6", "4", "8">>
         THEN I32Min
         ELSE 0 - DecValue(Tail(m))
    ELSE DecValue(Tail(m))

\* the modifiers that `.sum::<Result<i32, _>>()` adds up: those before the
\* first that `parse::<i32>` rejects
RECURSIVE ParsedModifiers(_)
ParsedModifiers(mods) ==
    IF mods = <<>> \/ ~ModifierFits(Head(mods)) THEN <<>>
    ELSE <<ModifierValue(Head(mods))>> \o ParsedModifiers(Tail(mods))

\* the sum of the modifiers in i32, and whether an addition overflowed
modifier_sum(mods) == i32_sum(ParsedModifiers(mods), [overflow |-> FALSE, v |-> 0])

RECURSIVE SumSeq(_)
SumSeq(q) == IF q = <<>> THEN 0 ELSE Head(q) + SumSeq(Tail(q))

NoSelect == [some |-> FALSE, amount |-> 0, action |-> "", which |-> ""]
SelectDice(amount, action, which) ==
    [some |-> TRUE, amount |-> amount, action |-> action, which |-> which]

SelectKind(kind) ==
    CASE kind \in {<<"k">>, <<"k", "h">>} -> <<"Keep", "High">>
      [] kind = <<"k", "l">>              -> <<"Keep", "Low">>
      [] kind \in {<<"d">>, <<"d", "l">>} -> <<"Drop", "Low">>
      [] kind = <<"d", "h">>              -> <<"Drop", "High">>

\* impl FromStr for Roll
Roll_from_str(s) ==
    LET roll(cap) ==
            IF ~cap.matched THEN ParseNoMatch
            ELSE IF cap.amount # <<>> /\ ~DecFits(cap.amount, U16Max)
            THEN ParseInvalid("bad amount")
            ELSE IF cap.amount # <<>> /\ DecValue(cap.amount) = 0
            THEN ParseInvalid("amount can't be 0")
            ELSE IF cap.sides # <<"%">> /\ ~DecFits(cap.sides, U16Max)
            THEN ParseInvalid("bad number of sides")
            ELSE IF cap.sides # <<"%">> /\ DecValue(cap.sides) = 0
            THEN ParseInvalid("number of sides can't be 0")
            ELSE IF cap.select /\ cap.selamt # <<>> /\ ~DecFits(cap.selamt, U16Max)
            THEN ParseInvalid("bad select amount")
            ELSE IF cap.select /\ cap.selamt # <<>> /\ DecValue(cap.selamt) = 0
            THEN ParseInvalid("select amount can't be 0")
            ELSE IF \E i \in 1..Len(cap.mods) : ~ModifierFits(cap.mods[i])
            THEN ParseInvalid("bad modifier")
            ELSE ParseOk(
                [amount    |-> IF cap.amount = <<>> THEN 1 ELSE DecValue(cap.amount),
                 sides     |-> IF cap.sides = <<"%">> THEN 100 ELSE DecValue(cap.sides),
                 exploding |-> cap.bang,
                 select    |-> IF ~cap.select THEN NoSelect
                               ELSE SelectDice(
                                      IF cap.selamt = <<>> THEN 1 ELSE DecValue(cap.selamt),
                                      SelectKind(cap.kind)[1], SelectKind(cap.kind)[2]),
                 modifier  |-> modifier_sum(cap.mods).v])
    IN  roll(RollCaptures(s))

\* Roll::from_str as a build makes it: with overflow checks the sum of the
\* modifiers panics where it overflows, without them it wraps
Roll_from_str_build(s, overflow_checks) ==
    LET built(cap, roll) ==
            IF /\ overflow_checks
               /\ roll.res = "Ok" \/ roll = ParseInvalid("bad modifier")
               /\ modifier_sum(cap.mods).overflow
            THEN [res |-> "Panic", v |-> <<>>]
            ELSE roll
    IN  built(RollCaptures(s), Roll_from_str(s))

-----------------------------------------------------------------------------
(* interval.rs: Interval                                                   *)

\* `(?:\+|-)?\d+` matches the whole of t
SignedDigits(t) ==
    LET body == IF t # <<>> /\ Head(t) \in {"+", "-"} THEN Tail(t) ELSE t
    IN  body # <<>> /\ \A i \in 1..Len(body) : body[i] \in Digits

\* parse_int: `parse::<i32>` of a string SignedDigits holds of
IntFits(t) ==
    ModifierFits(IF Head(t) \in {"+", "-"} THEN t ELSE <<"+">> \o t)

IntValue(t) ==
    ModifierValue(IF Head(t) \in {"+", "-"} THEN t ELSE <<"+">> \o t)

IntInterval(low_inc, high_inc, start, end) ==
    [low_inc |-> low_inc, high_inc |-> high_inc, kind |-> "Int",
     start |-> start, end |-> end, fstart |-> <<0, 1>>, fend |-> <<0, 1>>]

\* A float bound is kept as the decimal fraction <<numerator, denominator>>
\* its text denotes; the rounding to f32 is not modelled.
FloatInterval(low_inc, high_inc, fstart, fend) ==
    [low_inc |-> low_inc, high_inc |-> high_inc, kind |-> "Float",
     start |-> 0, end |-> 0, fstart |-> fstart, fend |-> fend]

\* a build_int_range that would take both bounds as they are written
build_int_range_as_written(start, end, low_inc, high_inc) ==
    IF ~(start < end) THEN ParseInvalid("the interval is empty")
    ELSE ParseOk(<<start, end>>)

\* build_int_range: the half-open range start..end as the pair <<start, end>>
build_int_range(start, end, low_inc, high_inc) ==
    IF ~low_inc /\ start = I32Max THEN ParseInvalid("start value is too big")
    ELSE IF high_inc /\ end = I32Max THEN ParseInvalid("end value is too big")
    ELSE LET s1 == IF low_inc THEN start ELSE start + 1
             e1 == IF high_inc THEN end + 1 ELSE end
         IN  IF ~(s1 < e1) THEN ParseInvalid("the interval is empty")
             ELSE ParseOk(<<s1, e1>>)

\* The captures of the range regex  \A((?:\+|-)?\d+)..(=)?((?:\+|-)?\d+)\z
\* on s.  Each of its two dots matches any character.  Group 1 is greedy: of
\* the prefixes that let the rest match, the longest is taken.
RangeCaptures(s) ==
    LET rest(i, eq) == SubSeq(s, i + 3 + (IF eq THEN 1 ELSE 0), Len(s))
        fits(i, eq) == /\ SignedDigits(SubSeq(s, 1, i))
                       /\ Len(s) >= i + 3
                       /\ eq => s[i + 3] = "="
                       /\ SignedDigits(rest(i, eq))
        longest(cands) ==
            IF cands = {} THEN [matched |-> FALSE, start |-> <<>>, eq |-> FALSE, end |-> <<>>]
            ELSE LET best == CHOOSE i \in cands : \A j \in cands : j <= i
                 IN  [matched |-> TRUE, start |-> SubSeq(s, 1, best),
                      eq |-> fits(best, TRUE), end |-> rest(best, fits(best, TRUE))]
    IN  longest({i \in 1..Len(s) : fits(i, TRUE) \/ fits(i, FALSE)})

\* parse_range
parse_range(s) ==
    LET built(cap, range) ==
            IF range.res # "Ok" THEN range
            ELSE ParseOk(IntInterval(TRUE, cap.eq, range.v[1], range.v[2]))
        parsed(cap) ==
            IF ~cap.matched THEN ParseNoMatch
            ELSE IF ~IntFits(cap.start) THEN ParseInvalid("start: number too large")
            ELSE IF ~IntFits(cap.end) THEN ParseInvalid("end: number too large")
            ELSE built(cap, build_int_range(IntValue(cap.start), IntValue(cap.end),
                                            TRUE, cap.eq))
    IN  parsed(RangeCaptures(s))

\* the length of the match of `(?:\+|-)?(?:\d*\.)?\d+` at the start of t, the
\* longest one; 0 when there is none
NumberPrefix(t) ==
    LET sign == IF t # <<>> /\ Head(t) \in {"+", "-"} THEN 1 ELSE 0
        u    == SubSeq(t, sign + 1, Len(t))
        d1   == PrefixIn(u, Digits)
        v    == SubSeq(u, d1 + 2, Len(u))
        d2   == IF Len(u) > d1 /\ u[d1 + 1] = "." THEN PrefixIn(v, Digits) ELSE 0
    IN  IF d2 > 0 THEN sign + d1 + 1 + d2
        ELSE IF d1 > 0 THEN sign + d1
        ELSE 0

\* The captures of the interval regex
\*   \A([\[\(])\s*(NUM)\s*(,|\.{2})\s*(NUM)\s*([\]\)])\z
\* on s, NUM being (?:\+|-)?(?:\d*\.)?\d+
IntervalCaptures(s) ==
    LET close(t1, n1, t2, sepn, t3, n2, t4) ==
            [matched |-> /\ s # <<>> /\ s[1] \in {"[", "("}
                         /\ n1 > 0 /\ sepn > 0 /\ n2 > 0
                         /\ Len(t4) = 1 /\ t4[1] \in {"]", ")"},
             open  |-> IF s = <<>> THEN "" ELSE s[1],
             start |-> SubSeq(t1, 1, n1),
             sep   |-> SubSeq(t2, 1, sepn),
             end   |-> SubSeq(t3, 1, n2),
             close |-> IF t4 = <<>> THEN "" ELSE t4[1]]
        end(t1, n1, t2, sepn, t3, n2) ==
            close(t1, n1, t2, sepn, t3, n2,
                  TrimStartIn(SubSeq(t3, n2 + 1, Len(t3)), White_Space))
        after_sep(t1, n1, t2, sepn, t3) == end(t1, n1, t2, sepn, t3, NumberPrefix(t3))
        sep(t1, n1, t2) ==
            LET sepn == IF t2 # <<>> /\ t2[1] = "," THEN 1
                        ELSE IF Len(t2) >= 2 /\ t2[1] = "." /\ t2[2] = "." THEN 2
                        ELSE 0
            IN  after_sep(t1, n1, t2, sepn,
                          TrimStartIn(SubSeq(t2, sepn + 1, Len(t2)), White_Space))
        start(t1, n1) == sep(t1, n1, TrimStartIn(SubSeq(t1, n1 + 1, Len(t1)), White_Space))
        open(t1) == start(t1, NumberPrefix(t1))
    IN  open(TrimStartIn(IF s = <<>> THEN s ELSE Tail(s), White_Space))

RECURSIVE Pow10(_)
Pow10(n) == IF n = 0 THEN 1 ELSE 10 * Pow10(n - 1)

\* parse_float: the decimal fraction the text of a NUM denotes
FloatValue(t) ==
    LET neg  == Head(t) = "-"
        u    == IF Head(t) \in {"+", "-"} THEN Tail(t) ELSE t
        dot  == FindFrom(u, ".", 0)
        ip   == IF dot = 0 THEN u ELSE SubSeq(u, 1, dot - 1)
        fp   == IF dot = 0 THEN <<>> ELSE SubSeq(u, dot + 1, Len(u))
        num  == DecValue(ip) * Pow10(Len(fp)) + DecValue(fp)
    IN  <<IF neg THEN 0 - num ELSE num, Pow10(Len(fp))>>

FloatLess(a, b) == a[1] * b[2] < b[1] * a[2]

\* parse_interval
parse_interval(s) ==
    LET built(low_inc, high_inc, range) ==
            IF range.res # "Ok" THEN range
            ELSE ParseOk(IntInterval(low_inc, high_inc, range.v[1], range.v[2]))
        float(low_inc, high_inc, start, end) ==
            IF ~FloatLess(start, end) THEN ParseInvalid("the interval is empty")
            ELSE ParseOk(FloatInterval(low_inc, high_inc, start, end))
        parsed(cap) ==
            LET low_inc  == cap.open = "["
                high_inc == cap.close = "]"
                is_float == \/ cap.sep = <<",">>
                            \/ Contains(cap.start, ".") \/ Contains(cap.end, ".")
            IN  IF ~cap.matched THEN ParseNoMatch
                ELSE IF is_float
                THEN float(low_inc, high_inc, FloatValue(cap.start), FloatValue(cap.end))
                ELSE IF ~IntFits(cap.start) THEN ParseInvalid("start: number too large")
                ELSE IF ~IntFits(cap.end) THEN ParseInvalid("end: number too large")
                ELSE built(low_inc, high_inc,
                           build_int_range(IntValue(cap.start), IntValue(cap.end),
                                           low_inc, high_inc))
    IN  parsed(IntervalCaptures(s))

\* impl FromStr for Interval
Interval_from_str(s) ==
    LET first(range, interval) == IF range.res # "NoMatch" THEN range ELSE interval
    IN  first(parse_range(s), parse_interval(s))

-----------------------------------------------------------------------------
(* rand and rand_pcg, as lib.rs, coin.rs, dice.rs and interval.rs use them *)

\* Pcg64 is a linear congruential generator with a permuted output.  The
\* generator here is one of the same construction on three bits: the state x
\* steps through all eight values, and the word drawn has the high bit of x
\* as its low bit.
Pcg_seed_from_u64(seed) == [x |-> (3 * seed + 1) % 8]

Pcg_from_entropy(os) == [x |-> (5 * os + 6) % 8]

next_word(rng) ==
    LET x == (5 * rng.x + 3) % 8
    IN  [rng |-> [x |-> x], v |-> (x \div 4) + 2 * (x % 4)]

\* rng.gen_range(low..high)
gen_range(rng, low, high) ==
    LET w == next_word(rng)
    IN  [rng |-> w.rng, v |-> low + (w.v % (high - low))]

Swap(v, i, j) == [v EXCEPT ![i] = v[j], ![j] = v[i]]

\* SliceRandom::shuffle: for i in (1..len).rev() { swap(i, gen_index(i + 1)) }
RECURSIVE ShuffleFrom(_, _, _)
ShuffleFrom(rng, v, i) ==
    IF i < 2 THEN [rng |-> rng, v |-> v]
    ELSE LET g == gen_range(rng, 0, i)
         IN  ShuffleFrom(g.rng, Swap(v, i, g.v + 1), i - 1)

shuffle(rng, v) == ShuffleFrom(rng, v, Len(v))

\* SliceRandom::choose on a slice that is not empty
choose(rng, v) ==
    LET g == gen_range(rng, 0, Len(v))
    IN  [rng |-> g.rng, v |-> v[g.v + 1]]

\* SliceRandom::choose_multiple: min(amount, len) distinct elements, picked by
\* a partial shuffle of the indices, in the order picked
RECURSIVE SampleFrom(_, _, _, _)
SampleFrom(rng, v, i, amount) ==
    IF i > amount THEN [rng |-> rng, v |-> SubSeq(v, 1, amount)]
    ELSE LET g == gen_range(rng, i - 1, Len(v))
         IN  SampleFrom(g.rng, Swap(v, i, g.v + 1), i + 1, amount)

\* a choose_multiple that would draw each element anew, with replacement
choose_multiple_repeating(rng, v, amount) ==
    LET RECURSIVE Draw(_, _, _)
        Draw(r, k, acc) ==
            IF k = 0 THEN [rng |-> r, v |-> acc]
            ELSE LET c == choose(r, v)
                 IN  Draw(c.rng, k - 1, Append(acc, c.v))
    IN  Draw(rng, amount, <<>>)

choose_multiple(rng, v, amount) ==
    SampleFrom(rng, v, 1, IF amount < Len(v) THEN amount ELSE Len(v))

-----------------------------------------------------------------------------
(* coin.rs, dice.rs, interval.rs: evaluation                               *)

\* toss_coin: TRUE is CoinResult::Heads
toss_coin(rng) ==
    LET g == gen_range(rng, 0, 2)
    IN  [rng |-> g.rng, v |-> g.v = 1]

Die(val, drop) == [val |-> val, drop |-> drop]

\* The dice of Roll::eval before the selection: `left` dice are still to be
\* rolled, and an exploding die that shows its highest face is followed by
\* one more.  The loop of an exploding die has no bound in the code; `boom`
\* extra dice are followed here, and halts is FALSE when the loop ran past them.
RECURSIVE RollDice(_, _, _, _, _)
RollDice(roll, rng, left, dice, boom) ==
    LET rolled(g) ==
            IF roll.exploding /\ g.v = roll.sides
            THEN IF boom = 0
                 THEN [rng |-> g.rng, dice |-> Append(dice, Die(g.v, FALSE)),
                       halts |-> FALSE]
                 ELSE RollDice(roll, g.rng, left, Append(dice, Die(g.v, FALSE)), boom - 1)
            ELSE RollDice(roll, g.rng, left - 1, Append(dice, Die(g.v, FALSE)), boom)
    IN  IF left = 0 THEN [rng |-> rng, dice |-> dice, halts |-> TRUE]
        ELSE rolled(gen_range(rng, 1, roll.sides + 1))

\* dice.sort_unstable(): by face value
RECURSIVE SortDice(_)
SortDice(dice) ==
    IF dice = <<>> THEN <<>>
    ELSE LET m == CHOOSE i \in 1..Len(dice) :
                      /\ \A j \in 1..Len(dice) : dice[i].val <= dice[j].val
                      /\ \A j \in 1..(i - 1) : dice[j].val > dice[i].val
         IN  <<dice[m]>> \o SortDice([k \in 1..(Len(dice) - 1) |->
                                         IF k < m THEN dice[k] ELSE dice[k + 1]])

\* a match that would keep the lowest for keep-high
drop_dice_keep_low(dice, select) ==
    LET sorted == SortDice(dice)
        len    == Len(sorted)
        n      == select.amount
        hit(i) == CASE select.action = "Keep" -> i > n
                    [] select.action = "Drop" /\ select.which = "High" -> i > len - n
                    [] select.action = "Drop" /\ select.which = "Low"  -> i <= n
    IN  [i \in 1..len |-> Die(sorted[i].val, hit(i))]

\* the match on (select.action, select.which) in Roll::eval
drop_dice(dice, select) ==
    LET sorted == SortDice(dice)
        len    == Len(sorted)
        n      == select.amount
        hit(i) == CASE select.action = "Keep" /\ select.which = "High" -> i <= len - n
                    [] select.action = "Keep" /\ select.which = "Low"  -> i > n
                    [] select.action = "Drop" /\ select.which = "High" -> i > len - n
                    [] select.action = "Drop" /\ select.which = "Low"  -> i <= n
    IN  [i \in 1..len |-> Die(sorted[i].val, hit(i))]

MaxExplode == 8

\* Roll::eval
Roll_eval(roll, rng) ==
    LET selected(r) ==
            [rng |-> r.rng, halts |-> r.halts,
             v |-> [roll |-> roll,
                    dice |-> IF roll.select.some THEN drop_dice(r.dice, roll.select)
                             ELSE r.dice]]
    IN  selected(RollDice(roll, rng, roll.amount, <<>>, MaxExplode))

\* RollResult::taken_dice
taken_dice(res) ==
    LET kept == SelectSeq(res.dice, LAMBDA d : ~d.drop)
    IN  [i \in 1..Len(kept) |-> kept[i].val]

\* RollResult::total
\* RollResult::total with its overflow
total_i32(res) ==
    LET plus_modifier(s, t) == [overflow |-> s.overflow \/ t.overflow, v |-> t.v]
        sum(s) == plus_modifier(s, i32_add(s.v, res.roll.modifier))
    IN  sum(i32_sum(taken_dice(res), [overflow |-> FALSE, v |-> 0]))

\* RollResult::total as a build without overflow checks computes it
RollResult_total(res) == total_i32(res).v

\* RollResult::total as its caller sees it
total(res, overflow_checks) ==
    LET checked(t) == IF overflow_checks /\ t.overflow THEN [res |-> "Panic", v |-> 0]
                      ELSE [res |-> "Ok", v |-> t.v]
    IN  checked(total_i32(res))

Num_Int(n) == [kind |-> "Int", int |-> n, float |-> <<0, 1>>]
Num_Float(f) == [kind |-> "Float", int |-> 0, float |-> f]

\* start + u * (end - start) on fractions, u being <<a, b>>
Lerp(start, end, u) ==
    <<start[1] * end[2] * u[2] + u[1] * (end[1] * start[2] - start[1] * end[2]),
      start[2] * end[2] * u[2]>>

\* Interval::eval.  A float is drawn on the eight-point grid of the word:
\* the closed range reaches both ends, the half-open one the low end only,
\* OpenClosed01 the high end only and Open01 neither.
Interval_eval(iv, rng) ==
    IF iv.kind = "Int"
    THEN LET g == gen_range(rng, iv.start, iv.end)
         IN  [rng |-> g.rng, v |-> [interval |-> iv, value |-> Num_Int(g.v)]]
    ELSE LET w == next_word(rng)
             u == CASE iv.low_inc /\ iv.high_inc   -> <<w.v, 7>>
                    [] iv.low_inc /\ ~iv.high_inc  -> <<w.v, 8>>
                    [] ~iv.low_inc /\ iv.high_inc  -> <<w.v + 1, 8>>
                    [] ~iv.low_inc /\ ~iv.high_inc -> <<2 * w.v + 1, 16>>
         IN  [rng |-> w.rng,
              v |-> [interval |-> iv,
                     value |-> Num_Float(Lerp(iv.fstart, iv.fend, u))]]

-----------------------------------------------------------------------------
(* entry.rs: entries                                                       *)

NoRoll ==
    [amount |-> 0, sides |-> 0, exploding |-> FALSE, select |-> NoSelect, modifier |-> 0]
NoInterval == IntInterval(FALSE, FALSE, 0, 0)
NoRollResult == [roll |-> NoRoll, dice |-> <<>>]
NoIntervalResult == [interval |-> NoInterval, value |-> Num_Int(0)]

\* enum EntryData
EntryData(kind, text, roll, interval) ==
    [kind |-> kind, text |-> text, roll |-> roll, interval |-> interval]
EntryData_Text(t) == EntryData("Text", t, NoRoll, NoInterval)
EntryData_Coin == EntryData("Coin", <<>>, NoRoll, NoInterval)
EntryData_Dice(r) == EntryData("Dice", <<>>, r, NoInterval)
EntryData_Interval(i) == EntryData("Interval", <<>>, NoRoll, i)

\* enum Entry
Entry(kind, text, heads, dice, interval) ==
    [kind |-> kind, text |-> text, heads |-> heads, dice |-> dice, interval |-> interval]
Entry_Text(t) == Entry("Text", t, FALSE, NoRollResult, NoIntervalResult)
Entry_Coin(r) == Entry("Coin", <<>>, r, NoRollResult, NoIntervalResult)
Entry_Dice(r) == Entry("Dice", <<>>, FALSE, r, NoIntervalResult)
Entry_Interval(i) == Entry("Interval", <<>>, FALSE, NoRollResult, i)

\* enum Error
Error(kind, msg, e) == [kind |-> kind, msg |-> msg, split |-> e]
NoErr == Error("None", "", NoError)
Error_Expr(msg) == Error("Expr", msg, NoError)
Error_SplitError(e) == Error("SplitError", "", e)

\* a parse_expr that would go on to the next recognizer after an invalid roll
parse_expr_lenient(expr) ==
    LET first(roll, iv) ==
            IF expr = <<"c", "o", "i", "n">>
            THEN [res |-> "Ok", data |-> EntryData_Coin, error |-> NoErr]
            ELSE IF roll.res = "Ok"
            THEN [res |-> "Ok", data |-> EntryData_Dice(roll.v), error |-> NoErr]
            ELSE IF iv.res = "Ok"
            THEN [res |-> "Ok", data |-> EntryData_Interval(iv.v), error |-> NoErr]
            ELSE IF iv.res = "Invalid"
            THEN [res |-> "Err", data |-> EntryData_Text(expr), error |-> Error_Expr(iv.v)]
            ELSE [res |-> "Ok", data |-> EntryData_Text(expr), error |-> NoErr]
    IN  first(Roll_from_str(expr), Interval_from_str(expr))

\* parse_expr
parse_expr(expr) ==
    LET first(roll, iv) ==
            IF expr = <<"c", "o", "i", "n">>
            THEN [res |-> "Ok", data |-> EntryData_Coin, error |-> NoErr]
            ELSE IF roll.res = "Ok"
            THEN [res |-> "Ok", data |-> EntryData_Dice(roll.v), error |-> NoErr]
            ELSE IF roll.res = "Invalid"
            THEN [res |-> "Err", data |-> EntryData_Text(expr), error |-> Error_Expr(roll.v)]
            ELSE IF iv.res = "Ok"
            THEN [res |-> "Ok", data |-> EntryData_Interval(iv.v), error |-> NoErr]
            ELSE IF iv.res = "Invalid"
            THEN [res |-> "Err", data |-> EntryData_Text(expr), error |-> Error_Expr(iv.v)]
            ELSE [res |-> "Ok", data |-> EntryData_Text(expr), error |-> NoErr]
    IN  first(Roll_from_str(expr), Interval_from_str(expr))

\* parse_expr as a build makes it
parse_expr_build(expr, overflow_checks) ==
    IF Roll_from_str_build(expr, overflow_checks).res = "Panic"
    THEN [res |-> "Panic", data |-> EntryData_Text(expr), error |-> NoErr]
    ELSE parse_expr(expr)

\* SharedEntry::new(t, eval_expr): the entry is parsed as an expression when
\* eval_expr holds and is text otherwise
SharedEntry_new(t, eval_expr) ==
    IF eval_expr THEN parse_expr(t)
    ELSE [res |-> "Ok", data |-> EntryData_Text(t), error |-> NoErr]

\* BufferedEntry::eval, which SharedEntry::eval stands in for
Entry_eval(data, rng) ==
    LET coin(c) == [rng |-> c.rng, halts |-> TRUE, v |-> Entry_Coin(c.v)]
        dice(r) == [rng |-> r.rng, halts |-> r.halts, v |-> Entry_Dice(r.v)]
        interval(i) == [rng |-> i.rng, halts |-> TRUE, v |-> Entry_Interval(i.v)]
    IN  CASE data.kind = "Text" ->
                [rng |-> rng, halts |-> TRUE, v |-> Entry_Text(data.text)]
          [] data.kind = "Coin" -> coin(toss_coin(rng))
          [] data.kind = "Dice" -> dice(Roll_eval(data.roll, rng))
          [] data.kind = "Interval" -> interval(Interval_eval(data.interval, rng))

DigitChar(d) == <<"0", "1", "2", "3", "4", "5", "6", "7", "8", "9">>[d + 1]

RECURSIVE NatToText(_)
NatToText(n) ==
    IF n < 10 THEN <<DigitChar(n)>> ELSE Append(NatToText(n \div 10), DigitChar(n % 10))

\* the Display of an integer
IntToText(n) ==
    IF n = I32Min THEN <<"-", "2", "1", "4", "7", "4", "8", "3", "6", "4", "8">>
    ELSE IF n < 0 THEN <<"-">> \o NatToText(0 - n) ELSE NatToText(n)

\* impl Display for Interval, for the integer family: both brackets are
\* chosen by low_inc
Interval_fmt(iv) ==
    (IF iv.low_inc THEN <<"[">> ELSE <<"(">>)
       \o IntToText(IF iv.low_inc THEN iv.start ELSE iv.start - 1)
       \o <<".", ".">>
       \o IntToText(IF iv.high_inc THEN iv.end - 1 ELSE iv.end)
       \o (IF iv.low_inc THEN <<"]">> ELSE <<")">>)

\* print_modifier: `{:+}` of a modifier that is not 0
print_modifier(modifier) ==
    IF modifier = 0 THEN <<>>
    ELSE IF modifier > 0 THEN <<"+">> \o NatToText(modifier)
    ELSE IntToText(modifier)

\* the select clause of Display for Roll
select_fmt(select) ==
    IF ~select.some THEN <<>>
    ELSE (CASE select.action = "Keep" /\ select.which = "High" -> <<"k">>
            [] select.action = "Keep" /\ select.which = "Low"  -> <<"k", "l">>
            [] select.action = "Drop" /\ select.which = "High" -> <<"d", "h">>
            [] select.action = "Drop" /\ select.which = "Low"  -> <<"d">>)
         \o (IF select.amount > 1 THEN NatToText(select.amount) ELSE <<>>)

\* a Display for Roll that would write the amount of a single die too
Roll_fmt_amount(roll) ==
    NatToText(roll.amount) \o <<"d">> \o NatToText(roll.sides)
    \o (IF roll.exploding THEN <<"!">> ELSE <<>>)
    \o select_fmt(roll.select) \o print_modifier(roll.modifier)

\* impl Display for Roll, without the colour codes
Roll_fmt(roll) ==
    (IF roll.amount > 1 THEN NatToText(roll.amount) ELSE <<>>)
    \o <<"d">> \o NatToText(roll.sides)
    \o (IF roll.exploding THEN <<"!">> ELSE <<>>)
    \o select_fmt(roll.select) \o print_modifier(roll.modifier)

\* Entry::into_raw: the text of the sample's value, the text itself for
\* Entry::Text.  A float is written as its fraction.
into_raw(e) ==
    CASE e.kind = "Text" -> e.text
      [] e.kind = "Coin" -> IF e.heads THEN <<"h", "e", "a", "d", "s">>
                            ELSE <<"t", "a", "i", "l", "s">>
      [] e.kind = "Dice" -> IntToText(RollResult_total(e.dice))
      [] e.kind = "Interval" ->
            IF e.interval.value.kind = "Int" THEN IntToText(e.interval.value.int)
            ELSE IntToText(e.interval.value.float[1]) \o <<"/">>
                 \o IntToText(e.interval.value.float[2])

-----------------------------------------------------------------------------
(* ast.rs: Entry::parse and clean_string                                   *)

QuoteChars == {"'", "\""}

\* clean_string: the text without its delimiters, or the text as it is; the
\* slice `&s[1..s.len() - 1]` of a text of one character panics
clean_string(s) ==
    IF s = <<>> \/ Head(s) \notin QuoteChars THEN [res |-> "Ok", v |-> s]
    ELSE IF s[Len(s)] # Head(s) \/ (Len(s) >= 2 /\ s[Len(s) - 1] = "\\")
    THEN [res |-> "Ok", v |-> s]
    ELSE IF Len(s) < 2 THEN [res |-> "Panic", v |-> <<>>]
    ELSE IF Contains(SubSeq(s, 2, Len(s) - 1), Head(s)) THEN [res |-> "Ok", v |-> s]
    ELSE [res |-> "Ok", v |-> SubSeq(s, 2, Len(s) - 1)]

\* expr::parse_expr: "Expr" when a recognizer takes the text, "Err" when one
\* rejects it, "None" when none matches
expr_parse_expr(expr) ==
    LET first(roll, iv) ==
            IF expr \in {<<"c", "o", "i", "n">>, <<"c", "o", "l", "o", "r">>} THEN "Expr"
            ELSE IF roll.res = "Ok" THEN "Expr"
            ELSE IF roll.res = "Invalid" THEN "Err"
            ELSE IF iv.res = "Ok" THEN "Expr"
            ELSE IF iv.res = "Invalid" THEN "Err"
            ELSE "None"
    IN  first(Roll_from_str(expr), Interval_from_str(expr))

\* Entry::parse
Entry_parse(entry) ==
    LET parsed(e, cleaned) ==
            IF e = "Err" THEN [res |-> "Err", kind |-> "", text |-> <<>>]
            ELSE IF e = "Expr" THEN [res |-> "Ok", kind |-> "Expr", text |-> entry]
            ELSE IF cleaned.res = "Panic" THEN [res |-> "Panic", kind |-> "", text |-> <<>>]
            ELSE [res |-> "Ok", kind |-> "Text", text |-> cleaned.v]
    IN  parsed(expr_parse_expr(entry), clean_string(entry))

-----------------------------------------------------------------------------
(* lib.rs: State, the query interpreter                                    *)

\* State::from_rng
from_rng(rng) == [stack |-> <<>>, rng |-> rng, sep |-> DefaultSeparators]

\* State::new; os is what the entropy source of the system yields when read
State_new(os) == from_rng(Pcg_from_entropy(os))

\* a with_seed that would seed the generator from the entropy source
with_seed_entropy(seed, os) == from_rng(Pcg_from_entropy(os))

\* State::with_seed, which leaves the entropy source alone
with_seed(seed, os) == from_rng(Pcg_seed_from_u64(seed))

\* a repeating branch that would stop at the size of the population
choose_repeating_capped(rng, entries, n, acc) ==
    choose_multiple_repeating(rng, entries,
                              IF n < Len(entries) THEN n ELSE Len(entries))

\* select, the repeating branch: `for _ in 0..n { entries.choose(rng) }`
RECURSIVE choose_repeating(_, _, _, _)
choose_repeating(rng, entries, n, acc) ==
    IF n = 0 THEN [rng |-> rng, v |-> acc]
    ELSE LET c == choose(rng, entries)
         IN  choose_repeating(c.rng, entries, n - 1, Append(acc, c.v))

\* a sort that would leave the selection as sampled
sort_unstable_by_key_skip(v) == v

\* selected.sort_unstable_by_key(|e| e.0); the ids of a selection that holds
\* an entry twice are equal only for clones of one entry
RECURSIVE sort_unstable_by_key(_)
sort_unstable_by_key(v) ==
    IF v = <<>> THEN <<>>
    ELSE LET m == CHOOSE i \in 1..Len(v) :
                      /\ \A j \in 1..Len(v) : v[i].id <= v[j].id
                      /\ \A j \in 1..(i - 1) : v[j].id > v[i].id
         IN  <<v[m]>> \o sort_unstable_by_key([k \in 1..(Len(v) - 1) |->
                                                  IF k < m THEN v[k] ELSE v[k + 1]])

\* the general case of select
select_general(rng, entries, options, n) ==
    LET sorted(selected) ==
            IF options.keep_order
            THEN [rng |-> selected.rng, v |-> sort_unstable_by_key(selected.v)]
            ELSE selected
    IN  sorted(IF options.repeating THEN choose_repeating(rng, entries, n, <<>>)
               ELSE choose_multiple(rng, entries, n))

\* the whole population, shuffled unless the order is kept
select_all(rng, entries, options) ==
    IF ~options.keep_order THEN shuffle(rng, entries)
    ELSE [rng |-> rng, v |-> entries]

\* `match options.amount` in select
select_amount(entries, options) ==
    IF options.amount.all THEN Len(entries) ELSE options.amount.n

\* select of lib.rs
select(rng, entries, options) ==
    IF entries = <<>> THEN [rng |-> rng, v |-> <<>>]
    ELSE IF select_amount(entries, options) = Len(entries)
    THEN select_all(rng, entries, options)
    ELSE select_general(rng, entries, options, select_amount(entries, options))

\* select of eval.rs, which Choose::eval calls
eval_select(rng, entries, options) ==
    IF entries = <<>> THEN [rng |-> rng, v |-> <<>>]
    ELSE IF ~options.repeating /\ select_amount(entries, options) >= Len(entries)
    THEN select_all(rng, entries, options)
    ELSE select_general(rng, entries, options, select_amount(entries, options))

\* an Auto policy that would evaluate whenever some entry is pending
resolve_eval_expr_some(options, stack) ==
    IF options.eval_expr = "Auto" THEN Len(stack) >= 1
    ELSE options.eval_expr = "True"

\* `match options.eval_expr` at the head of end_stmt
resolve_eval_expr(options, stack) ==
    IF options.eval_expr = "Auto" THEN Len(stack) = 1
    ELSE options.eval_expr = "True"

\* an end_stmt that would clone the stack and leave it as it was
take_stack_clone(self) == [entries |-> self.stack, state |-> self]

\* std::mem::take(&mut self.stack)
take_stack(self) == [entries |-> self.stack, state |-> [self EXCEPT !.stack = <<>>]]

\* the map over the selected entries in end_stmt: each is evaluated in turn
RECURSIVE EvalAll(_, _, _, _)
EvalAll(rng, selected, i, acc) ==
    LET next(e) ==
            IF ~e.halts THEN [rng |-> e.rng, halts |-> FALSE, v |-> acc]
            ELSE EvalAll(e.rng, selected, i + 1, Append(acc, e.v))
    IN  IF i > Len(selected) THEN [rng |-> rng, halts |-> TRUE, v |-> acc]
        ELSE next(Entry_eval(selected[i].entry, rng))

\* What one end_stmt did: the entries it found pending, its options, the
\* eval_expr it passed to SharedEntry::new, the ids it selected, the samples of
\* the selected entries, and what it returned and left on the stack.
Stmt(pending, options, eval_expr, selected, samples, res, returned, stack) ==
    [pending |-> pending, options |-> options, eval_expr |-> eval_expr,
     selected |-> selected, samples |-> samples, res |-> res,
     returned |-> returned, stack |-> stack]

\* the end of end_stmt: `if options.push { .. }` and the StmtOutput returned
end_stmt_returns(taken, options, eval_expr, selected, output) ==
    LET ids    == [k \in 1..Len(selected.v) |-> selected.v[k].id]
        after  == [taken.state EXCEPT !.rng = output.rng]
        pushed == [k \in 1..Len(output.v) |-> into_raw(output.v[k])]
    IN  IF options.push
        THEN [state |-> [after EXCEPT !.stack = @ \o pushed], res |-> "Ok",
              halts |-> output.halts, error |-> NoErr, output |-> <<>>,
              stmt |-> Stmt(taken.entries, options, eval_expr, ids, output.v, "Ok",
                            <<>>, after.stack \o pushed)]
        ELSE [state |-> after, res |-> "Ok", halts |-> output.halts,
              error |-> NoErr, output |-> output.v,
              stmt |-> Stmt(taken.entries, options, eval_expr, ids, output.v, "Ok",
                            output.v, after.stack)]

\* the map over the selected entries in end_stmt
end_stmt_output(taken, options, eval_expr, selected) ==
    end_stmt_returns(taken, options, eval_expr, selected,
                     EvalAll(selected.rng, selected.v, 1, <<>>))

\* an end_stmt that would select first and fail only for a selected entry
end_stmt_selected_lazy(taken, options, eval_expr, parsed) ==
    LET chosen(selected) ==
            LET bad   == {k \in 1..Len(selected.v) : parsed[selected.v[k].id + 1].res = "Err"}
                first == CHOOSE k \in bad : \A j \in bad : k <= j
            IN  IF bad # {}
                THEN [state |-> [taken.state EXCEPT !.rng = selected.rng], res |-> "Err",
                      halts |-> TRUE,
                      error |-> parsed[selected.v[first].id + 1].error, output |-> <<>>,
                      stmt |-> Stmt(taken.entries, options, eval_expr, <<>>, <<>>, "Err",
                                    <<>>, taken.state.stack)]
                ELSE end_stmt_output(taken, options, eval_expr, selected)
    IN  chosen(select(taken.state.rng,
                      [i \in 1..Len(parsed) |-> [id |-> i - 1, entry |-> parsed[i].data]],
                      options))

\* end_stmt from its call of select on: parsed[i] is what SharedEntry::new
\* returned for the i-th entry, and the first Err among them is returned
end_stmt_selected(taken, options, eval_expr, parsed) ==
    LET bad   == {i \in 1..Len(parsed) : parsed[i].res = "Err"}
        first == CHOOSE i \in bad : \A j \in bad : i <= j
    IN  IF bad # {}
        THEN [state |-> taken.state, res |-> "Err", halts |-> TRUE,
              error |-> parsed[first].error, output |-> <<>>,
              stmt |-> Stmt(taken.entries, options, eval_expr, <<>>, <<>>, "Err", <<>>,
                            taken.state.stack)]
        ELSE end_stmt_output(taken, options, eval_expr,
                             select(taken.state.rng,
                                    [i \in 1..Len(parsed) |->
                                        [id |-> i - 1, entry |-> parsed[i].data]],
                                    options))

\* end_stmt from its loop over the entries on
end_stmt_shared(taken, options, eval_expr) ==
    end_stmt_selected(taken, options, eval_expr,
                      [i \in 1..Len(taken.entries) |->
                          SharedEntry_new(taken.entries[i], eval_expr)])

\* State::end_stmt
end_stmt(self, options) ==
    end_stmt_shared(take_stack(self), options, resolve_eval_expr(options, self.stack))

\* State::add_entry
add_entry(self, entry) ==
    IF Trim(entry) = <<>> THEN self
    ELSE [self EXCEPT !.stack = Append(@, Trim(entry))]

\* What a call returned: res is "Ok" or "Err", and for eof "None" or "Some";
\* outputs are the StmtOutputs delivered; stmts lists the end_stmts the call ran.
Called(self, res, outputs, error, stmts, halts) ==
    [state |-> self, res |-> res, outputs |-> outputs, error |-> error,
     stmts |-> stmts, halts |-> halts]

\* an eof without the is_empty test
eof_unguarded(self) ==
    LET some(r) ==
            IF r.res = "Ok"
            THEN Called(r.state, "Some", <<r.output>>, NoErr, <<r.stmt>>, r.halts)
            ELSE Called(r.state, "Err", <<>>, r.error, <<r.stmt>>, r.halts)
    IN  some(end_stmt(self, Options_default))

\* State::eof
eof(self) ==
    LET some(r) ==
            IF r.res = "Ok"
            THEN Called(r.state, "Some", <<r.output>>, NoErr, <<r.stmt>>, r.halts)
            ELSE Called(r.state, "Err", <<>>, r.error, <<r.stmt>>, r.halts)
    IN  IF self.stack = <<>> THEN Called(self, "None", <<>>, NoErr, <<>>, TRUE)
        ELSE some(end_stmt(self, Options_default))

\* an error return that would drop the entries that are pending
Try_err_clear(self, outputs, error, stmts, halts) ==
    Called([self EXCEPT !.stack = <<>>], "Err", <<>>, error, stmts, halts)

\* an error return that would carry the outputs collected so far
Try_err_partial(self, outputs, error, stmts, halts) ==
    Called(self, "Err", outputs, error, stmts, halts)

\* `?` on an Err in run_line and in run: the function returns the error, and
\* the outputs it had collected are dropped with its locals
Try_err(self, outputs, error, stmts, halts) ==
    Called(self, "Err", <<>>, error, stmts, halts)

None_options == [some |-> FALSE, v |-> Options_default]
Some_options(o) == [some |-> TRUE, v |-> o]

\* a run_line that would finalize a statement at every end of line
after_parts_finalize(self, options, outputs, stmts) ==
    LET pushed(r) ==
            IF r.res = "Ok"
            THEN Called(r.state, "Ok", Append(outputs, r.output), NoErr,
                        Append(stmts, r.stmt), r.halts)
            ELSE Try_err(r.state, outputs, r.error, Append(stmts, r.stmt), r.halts)
    IN  pushed(end_stmt(self, options.v))

\* run_line after its loop: `if let Some(options) = options { .. }` and the
\* final Ok(outputs)
after_parts(self, options, outputs, stmts) ==
    LET pushed(r) ==
            IF r.res = "Ok"
            THEN Called(r.state, "Ok", Append(outputs, r.output), NoErr,
                        Append(stmts, r.stmt), r.halts)
            ELSE Try_err(r.state, outputs, r.error, Append(stmts, r.stmt), r.halts)
    IN  IF options.some THEN pushed(end_stmt(self, options.v))
        ELSE Called(self, "Ok", outputs, NoErr, stmts, TRUE)

\* the `for part in split_line_parts(..)` loop of run_line; sp.out[i] is the
\* next part, and sp.err the error that follows the last one, if any
RECURSIVE run_parts(_, _, _, _, _, _)
run_parts(self, sp, i, options, outputs, stmts) ==
    LET parsed(o) ==
            IF options.some
            THEN Called(self, "Panic", <<>>, NoErr, stmts, TRUE)
            ELSE IF ~o.ok
            THEN Try_err(self, outputs, Error("Options", o.error, NoError), stmts, TRUE)
            ELSE run_parts(self, sp, i + 1, Some_options(o), outputs, stmts)
        pushed(r) ==
            IF r.res # "Ok"
            THEN Try_err(r.state, outputs, r.error, Append(stmts, r.stmt), r.halts)
            ELSE IF ~r.halts
            THEN Called(r.state, "Ok", outputs, NoErr, Append(stmts, r.stmt), FALSE)
            ELSE run_parts(r.state, sp, i + 1, None_options,
                           Append(outputs, r.output), Append(stmts, r.stmt))
    IN  IF i > Len(sp.out)
        THEN IF sp.err # NoError
             THEN Try_err(self, outputs, Error_SplitError(sp.err), stmts, TRUE)
             ELSE after_parts(self, options, outputs, stmts)
        ELSE CASE sp.out[i].part = "Entry" ->
                    run_parts(add_entry(self, sp.out[i].text), sp, i + 1, options,
                              outputs, stmts)
               [] sp.out[i].part = "Options" -> parsed(Options_from_str(sp.out[i].text))
               [] sp.out[i].part = "EndStmt" -> pushed(end_stmt(self, options.v))

\* State::run_line
run_line(self, line) ==
    run_parts(self, split_line_parts(line, self.sep), 1, None_options, <<>>, <<>>)

\* str::lines: the text between line feeds, each without a final carriage
\* return; a final line feed starts no line
RECURSIVE Lines(_)
Lines(input) ==
    IF input = <<>> THEN <<>>
    ELSE LET nl   == FindFrom(input, "\n", 0)
             raw  == IF nl = 0 THEN input ELSE SubSeq(input, 1, nl - 1)
             line == IF raw # <<>> /\ raw[Len(raw)] = "\r"
                     THEN SubSeq(raw, 1, Len(raw) - 1) ELSE raw
         IN  IF nl = 0 THEN <<line>>
             ELSE <<line>> \o Lines(SubSeq(input, nl + 1, Len(input)))

\* the `for line in input.lines()` loop of run and the eof after it
RECURSIVE run_lines(_, _, _, _, _)
run_lines(self, lines, i, output, stmts) ==
    LET ended(r) ==
            CASE r.res = "None" -> Called(r.state, "Ok", output, NoErr, stmts, TRUE)
              [] r.res = "Some" -> Called(r.state, "Ok", output \o r.outputs, NoErr,
                                          stmts \o r.stmts, r.halts)
              [] r.res = "Err"  -> Try_err(r.state, output, r.error,
                                           stmts \o r.stmts, r.halts)
        extended(r) ==
            IF r.res = "Err"
            THEN Try_err(r.state, output, r.error, stmts \o r.stmts, r.halts)
            ELSE IF r.res # "Ok" \/ ~r.halts
            THEN Called(r.state, r.res, output, NoErr, stmts \o r.stmts, r.halts)
            ELSE run_lines(r.state, lines, i + 1, output \o r.outputs, stmts \o r.stmts)
    IN  IF i > Len(lines) THEN ended(eof(self))
        ELSE extended(run_line(self, lines[i]))

\* run
run(input, os) == run_lines(State_new(os), Lines(input), 1, <<>>, <<>>)

-----------------------------------------------------------------------------
(* The tokenizer on every line up to MaxLineLen over LineAlphabet          *)

MaxLineLen == 4

LineAlphabet == {"a", " ", ",", "/", ";", "\"", "(", ")", "[", "]", "{", "}"}

RECURSIVE SeqsUpTo(_, _)
SeqsUpTo(S, n) ==
    IF n = 0 THEN {<<>>}
    ELSE LET shorter == SeqsUpTo(S, n - 1)
         IN  shorter \cup {Append(s, c) : s \in {t \in shorter : Len(t) = n - 1}, c \in S}

NoTask == [fn |-> "none", arg |-> <<>>, done |-> TRUE, ret |-> Options_default]
NoSplit == SplitParts_new(<<>>, DefaultSeparators)

\* what a call returned, as its caller sees it, with the end_stmts it ran
Returned(call, arg, r) ==
    [call |-> call, arg |-> arg, res |-> r.res, outputs |-> r.outputs,
     error |-> r.error, stmts |-> r.stmts]

NoRet == Returned("none", <<>>, Called(with_seed(0, 0), "", <<>>, NoErr, <<>>, TRUE))

\* no interpreter is in use
Idle ==
    /\ state = with_seed(0, 0) /\ twin = with_seed(0, 0)
    /\ ret = NoRet /\ ret2 = NoRet

InitTok ==
    /\ \E line \in SeqsUpTo(LineAlphabet, MaxLineLen) :
          split = SplitParts_new(line, DefaultSeparators)
    /\ task = NoTask
    /\ Idle

ConsumeOptions ==
    /\ ~split.done /\ split.mode = "Options"
    /\ split' = consume_options(split)
    /\ UNCHANGED <<task, interpreter>>

EmitEndStmt ==
    /\ ~split.done /\ split.mode = "EndStmt"
    /\ split' = emit_end_stmt(split)
    /\ UNCHANGED <<task, interpreter>>

NextEntry ==
    /\ ~split.done /\ split.mode = "Entry"
    /\ split' = next_entry(split)
    /\ UNCHANGED <<task, interpreter>>

NextTok == ConsumeOptions \/ EmitEndStmt \/ NextEntry

SpecTok == InitTok /\ [][NextTok]_vars

-----------------------------------------------------------------------------
(* Options::from_str on every string up to MaxOptLen over OptAlphabet that  *)
(* run_line can hand it: consume_options trims the text of an Options part *)

MaxOptLen == 4

OptAlphabet == {"r", "o", "e", "E", "p", " ", "VT", "0", "1", "a", "l"}

InitOpt ==
    /\ split = NoSplit
    /\ Idle
    /\ \E s \in {t \in SeqsUpTo(OptAlphabet, MaxOptLen) : Trim(t) = t} :
          task = [fn |-> "Options::from_str", arg |-> s, done |-> FALSE,
                  ret |-> Options_default]

ParseOptions ==
    /\ task.fn = "Options::from_str" /\ ~task.done
    /\ task' = [task EXCEPT !.done = TRUE, !.ret = Options_from_str(task.arg)]
    /\ UNCHANGED <<split, interpreter>>

NextOpt == ParseOptions

SpecOpt == InitOpt /\ [][NextOpt]_vars

-----------------------------------------------------------------------------
(* select of lib.rs and of eval.rs on every population up to MaxPopulation, *)
(* for every amount, both flags and every state of the generator           *)

MaxPopulation == 3

\* every state of the generator
PcgStates == {[x |-> x] : x \in 0..7}

\* entries as end_stmt hands them to select: (id, entry) in insertion order,
\* the i-th with a text of i letters
Population(size) ==
    [i \in 1..size |-> [id |-> i - 1, entry |-> EntryData_Text([k \in 1..i |-> "a"])]]

Amounts == {Amount_All} \cup {Amount_N(n) : n \in 0..(MaxPopulation + 1)}

InitSel ==
    /\ split = NoSplit
    /\ Idle
    /\ \E fn \in {"select", "eval::select"}, rng \in PcgStates,
          size \in 0..MaxPopulation, amount \in Amounts,
          repeating \in BOOLEAN, keep_order \in BOOLEAN :
          task = [fn |-> fn,
                  arg |-> [rng |-> rng, entries |-> Population(size),
                           options |-> Options_new(amount, repeating, "Auto",
                                                   keep_order, FALSE)],
                  done |-> FALSE,
                  ret |-> [rng |-> rng, v |-> <<>>]]

Select ==
    /\ task.fn = "select" /\ ~task.done
    /\ task' = [task EXCEPT !.done = TRUE,
                            !.ret = select(task.arg.rng, task.arg.entries, task.arg.options)]
    /\ UNCHANGED <<split, interpreter>>

EvalSelect ==
    /\ task.fn = "eval::select" /\ ~task.done
    /\ task' = [task EXCEPT !.done = TRUE,
                            !.ret = eval_select(task.arg.rng, task.arg.entries,
                                                task.arg.options)]
    /\ UNCHANGED <<split, interpreter>>

NextSel == Select \/ EvalSelect

SpecSel == InitSel /\ [][NextSel]_vars

-----------------------------------------------------------------------------
(* Roll::from_str, parse_expr, Roll::eval and the Display of Roll on the   *)
(* dice expressions with numbers up to MaxRollNum and at the ends of u16   *)

MaxRollNum == 2

RollNumbers ==
    {NatToText(n) : n \in 0..MaxRollNum}
       \cup {<<"6", "5", "5", "3", "5">>, <<"6", "5", "5", "3", "6">>}

RollSelects ==
    {<<>>} \cup {k \o n : k \in {<<"k">>, <<"k", "h">>, <<"k", "l">>,
                                 <<"d">>, <<"d", "h">>, <<"d", "l">>},
                          n \in {<<>>} \cup RollNumbers}

RollModifiers ==
    {<<>>, <<"+", "1">>, <<"-", "2">>, <<"+", "1", "-", "2">>,
     <<"+", "2", "1", "4", "7", "4", "8", "3", "6", "4", "7">>,
     <<"+", "2", "1", "4", "7", "4", "8", "3", "6", "4", "7", "+", "1">>,
     <<"-", "2", "1", "4", "7", "4", "8", "3", "6", "4", "7", "-", "2">>,
     <<"+", "2", "1", "4", "7", "4", "8", "3", "6", "4", "8">>}

\* the texts of the dice shape, and some that are no dice
RollTexts ==
    {a \o <<"d">> \o n \o b \o k \o m :
        a \in {<<>>} \cup RollNumbers, n \in {<<"%">>} \cup RollNumbers,
        b \in {<<>>, <<"!">>}, k \in RollSelects, m \in RollModifiers}
       \cup {<<"d">>, <<"2", "d">>, <<"d", "x">>, <<"c", "o", "i", "n">>,
             <<"1", ".", ".", "3">>, <<"3", ".", ".", "1">>}

InitDice ==
    /\ split = NoSplit
    /\ Idle
    /\ \E fn \in {"Roll::from_str", "parse_expr"}, text \in RollTexts :
          task = [fn |-> fn, arg |-> [text |-> text], done |-> FALSE, ret |-> <<>>]

RollFromStr ==
    /\ task.fn = "Roll::from_str" /\ ~task.done
    /\ \E overflow_checks \in BOOLEAN :
          task' = [task EXCEPT !.done = TRUE,
                               !.ret = Roll_from_str_build(task.arg.text, overflow_checks)]
    /\ UNCHANGED <<split, interpreter>>

ParseExpr ==
    /\ task.fn = "parse_expr" /\ ~task.done
    /\ \E overflow_checks \in BOOLEAN :
          task' = [task EXCEPT !.done = TRUE,
                               !.ret = parse_expr_build(task.arg.text, overflow_checks)]
    /\ UNCHANGED <<split, interpreter>>

\* Roll::eval of a parsed roll of up to MaxRollNum dice, and the total of the
\* result, in a build with and in one without overflow checks
RollEval ==
    /\ task.fn = "Roll::from_str" /\ task.done /\ task.ret.res = "Ok"
    /\ task.ret.v.amount <= MaxRollNum
    /\ \E rng \in PcgStates, overflow_checks \in BOOLEAN :
          \E r \in {Roll_eval(task.ret.v, rng)} :
             task' = [fn |-> "Roll::eval",
                      arg |-> [text |-> task.arg.text, roll |-> task.ret.v, rng |-> rng],
                      done |-> TRUE,
                      ret |-> [halts |-> r.halts, dice |-> r.v.dice,
                               total |-> total(r.v, overflow_checks)]]
    /\ UNCHANGED <<split, interpreter>>

RollDisplay ==
    /\ task.fn = "Roll::from_str" /\ task.done /\ task.ret.res = "Ok"
    /\ task' = [fn |-> "Roll::fmt",
                arg |-> [text |-> task.arg.text, roll |-> task.ret.v],
                done |-> TRUE,
                ret |-> Roll_fmt(task.ret.v)]
    /\ UNCHANGED <<split, interpreter>>

NextDice == RollFromStr \/ ParseExpr \/ RollEval \/ RollDisplay

SpecDice == InitDice /\ [][NextDice]_vars

-----------------------------------------------------------------------------
(* Interval::from_str and Interval::eval on the integer intervals with     *)
(* bounds up to MaxIntBound either side of 0 and at the end of i32         *)

MaxIntBound == 2

IntBounds ==
    {IntToText(n) : n \in (0 - MaxIntBound)..MaxIntBound}
       \cup {IntToText(I32Max - 1), IntToText(I32Max), IntToText(0 - I32Max),
             <<"2", "1", "4", "7", "4", "8", "3", "6", "4", "8">>}

\* an integer interval as it is written: `[lo..hi]` with either bracket at
\* either end, `lo..hi` or `lo..=hi`
IntIntervalText(bracket, low_inc, high_inc, lo, hi) ==
    IF bracket
    THEN <<IF low_inc THEN "[" ELSE "(">> \o lo \o <<".", ".">> \o hi
            \o <<IF high_inc THEN "]" ELSE ")">>
    ELSE lo \o <<".", ".">> \o (IF high_inc THEN <<"=">> ELSE <<>>) \o hi

InitInt ==
    /\ split = NoSplit
    /\ Idle
    /\ \E bracket \in BOOLEAN, low_inc \in BOOLEAN, high_inc \in BOOLEAN,
          lo \in IntBounds, hi \in IntBounds :
          /\ ~bracket => low_inc
          /\ task = [fn |-> "Interval::from_str",
                     arg |-> [text |-> IntIntervalText(bracket, low_inc, high_inc, lo, hi),
                              low_inc |-> low_inc, high_inc |-> high_inc,
                              lo |-> lo, hi |-> hi],
                     done |-> FALSE, ret |-> <<>>]

IntervalFromStr ==
    /\ task.fn = "Interval::from_str" /\ ~task.done
    /\ task' = [task EXCEPT !.done = TRUE, !.ret = Interval_from_str(task.arg.text)]
    /\ UNCHANGED <<split, interpreter>>

\* Interval::eval of a parsed interval whose width the integers here can hold
IntervalEval ==
    /\ task.fn = "Interval::from_str" /\ task.done /\ task.ret.res = "Ok"
    /\ IF task.ret.v.start >= 0 THEN TRUE
       ELSE task.ret.v.end <= I32Max + task.ret.v.start
    /\ \E rng \in PcgStates :
          task' = [fn |-> "Interval::eval",
                   arg |-> [task.arg EXCEPT !.text = task.arg.text],
                   done |-> TRUE,
                   ret |-> Interval_eval(task.ret.v, rng).v]
    /\ UNCHANGED <<split, interpreter>>

IntervalDisplay ==
    /\ task.fn = "Interval::from_str" /\ task.done /\ task.ret.res = "Ok"
    /\ task' = [fn |-> "Interval::fmt",
                arg |-> [text |-> task.arg.text, interval |-> task.ret.v],
                done |-> TRUE,
                ret |-> Interval_fmt(task.ret.v)]
    /\ UNCHANGED <<split, interpreter>>

NextInt == IntervalFromStr \/ IntervalEval \/ IntervalDisplay

SpecInt == InitInt /\ [][NextInt]_vars

-----------------------------------------------------------------------------
(* parse_range, Interval::from_str and parse_expr on every text up to      *)
(* MaxRangeLen over RangeAlphabet                                          *)

MaxRangeLen == 5

RangeAlphabet == {"0", "1", "4", ".", "=", "-"}

InitRange ==
    /\ split = NoSplit
    /\ Idle
    /\ \E fn \in {"parse_range", "Interval::from_str", "parse_expr"},
          text \in SeqsUpTo(RangeAlphabet, MaxRangeLen) :
          task = [fn |-> fn, arg |-> [text |-> text], done |-> FALSE, ret |-> <<>>]

ParseRange ==
    /\ task.fn = "parse_range" /\ ~task.done
    /\ task' = [task EXCEPT !.done = TRUE, !.ret = parse_range(task.arg.text)]
    /\ UNCHANGED <<split, interpreter>>

NextRange == ParseRange \/ IntervalFromStr \/ ParseExpr

SpecRange == InitRange /\ [][NextRange]_vars

-----------------------------------------------------------------------------
(* Entry::parse on every text up to MaxEntryLen over EntryAlphabet, and on *)
(* some expressions                                                        *)

MaxEntryLen == 4

EntryAlphabet == {"x", "'", "\"", "\\"}

EntryTexts ==
    SeqsUpTo(EntryAlphabet, MaxEntryLen)
       \cup {<<"c", "o", "i", "n">>, <<"d", "2">>, <<"d", "0">>, <<"1", ".", ".", "2">>}

InitEntry ==
    /\ split = NoSplit
    /\ Idle
    /\ \E text \in EntryTexts :
          task = [fn |-> "Entry::parse", arg |-> [text |-> text], done |-> FALSE,
                  ret |-> <<>>]

EntryParse ==
    /\ task.fn = "Entry::parse" /\ ~task.done
    /\ task' = [task EXCEPT !.done = TRUE, !.ret = Entry_parse(task.arg.text)]
    /\ UNCHANGED <<split, interpreter>>

NextEntryParse == EntryParse

SpecEntry == InitEntry /\ [][NextEntryParse]_vars

-----------------------------------------------------------------------------
(* Two callers, each with a State of its own, make the same calls          *)

MaxSeed == 1
MaxStack == 2

Seeds == 0..MaxSeed
Entropy == 0..MaxSeed

\* the arguments of add_entry
EntryInputs ==
    {<<"a">>, <<" ", "c", "o", "i", "n", " ">>, <<"d", "0">>, <<" ">>}

\* the arguments of run_line
LineInputs ==
    {<<>>,
     <<"a">>,
     <<"a", ",", ",", "c", "o", "i", "n">>,
     <<"a", ";">>,
     <<",", "d", "2", ";">>,
     <<"/", "e">>,
     <<"/", "E">>,
     <<"/", "2", "p">>,
     <<"/", "l", "i", "s", "t">>,
     <<"a", ";", "/", "x">>,
     <<"a", ";", "d", "0", ";">>,
     <<"a", ";", "(">>,
     <<"a", "/", "x">>,
     <<"a", ",", "d", "0", "/", "e">>}

\* the arguments of run
Programs ==
    {<<"a", "\n", "b">>,
     <<"a", ";", "\n", "b", "\n">>,
     <<"a", "/", "E", "\r", "\n", "b">>,
     <<"a", ";", "\n", "/", "x">>,
     <<"a", ";", "\n", "d", "0">>,
     <<"c", "o", "i", "n">>}

Init ==
    /\ split = NoSplit /\ task = NoTask
    /\ \E seed \in Seeds, os1 \in Entropy, os2 \in Entropy :
          /\ state = with_seed(seed, os1)
          /\ twin = with_seed(seed, os2)
    /\ ret = NoRet /\ ret2 = NoRet

Fits(r) == r.halts /\ Len(r.state.stack) <= MaxStack

AddEntry ==
    \E entry \in EntryInputs :
       \E r  \in {Called(add_entry(state, entry), "Unit", <<>>, NoErr, <<>>, TRUE)},
          r2 \in {Called(add_entry(twin, entry), "Unit", <<>>, NoErr, <<>>, TRUE)} :
          /\ Fits(r) /\ Fits(r2)
          /\ state' = r.state /\ ret' = Returned("add_entry", entry, r)
          /\ twin' = r2.state /\ ret2' = Returned("add_entry", entry, r2)
          /\ UNCHANGED <<split, task>>

RunLine ==
    \E line \in LineInputs :
       \E r \in {run_line(state, line)}, r2 \in {run_line(twin, line)} :
          /\ Fits(r) /\ Fits(r2)
          /\ state' = r.state /\ ret' = Returned("run_line", line, r)
          /\ twin' = r2.state /\ ret2' = Returned("run_line", line, r2)
          /\ UNCHANGED <<split, task>>

Eof ==
    \E r \in {eof(state)}, r2 \in {eof(twin)} :
       /\ Fits(r) /\ Fits(r2)
       /\ state' = r.state /\ ret' = Returned("eof", <<>>, r)
       /\ twin' = r2.state /\ ret2' = Returned("eof", <<>>, r2)
       /\ UNCHANGED <<split, task>>

\* run builds a State of its own: each caller may call it before it uses the
\* State it holds
Run ==
    /\ ret.call = "none"
    /\ \E input \in Programs, os1 \in Entropy, os2 \in Entropy :
          \E r \in {run(input, os1)}, r2 \in {run(input, os2)} :
             /\ r.halts /\ r2.halts
             /\ ret' = Returned("run", input, r)
             /\ ret2' = Returned("run", input, r2)
             /\ UNCHANGED <<split, task, state, twin>>

Next == AddEntry \/ RunLine \/ Eof \/ Run

Spec == Init /\ [][Next]_vars

-----------------------------------------------------------------------------
(* The tokenizer's claims, on SpecTok                                      *)

Separator(c) == c \in {DefaultSeparators.entry, DefaultSeparators.options,
                       DefaultSeparators.stmt}

\* the characters from + 1 .. at - 1 of line outside a quoted region that
\* starts after from: those with an even number of quotes before them
Unquoted(line, from, at) ==
    {i \in (from + 1)..(at - 1) :
        /\ line[i] # "\""
        /\ Cardinality({j \in (from + 1)..(i - 1) : line[j] = "\""}) % 2 = 0}

\* position at is inside a quoted region that starts after from
InQuotes(line, from, at) ==
    Cardinality({j \in (from + 1)..(at - 1) : line[j] = "\""}) % 2 = 1

\* the number of brackets open at position at, of those opened after from
Depth(line, from, at) ==
    Cardinality({i \in Unquoted(line, from, at) : line[i] \in Openers})
    - Cardinality({i \in Unquoted(line, from, at) : line[i] \in Closers})

Nested(line, from, at) == InQuotes(line, from, at) \/ Depth(line, from, at) > 0

CutAt(k) == split.cuts[k]

\* C7 as stated: a separator inside a bracket pair or a quoted region never
\* ends an entry or a statement, in entry mode and in options mode alike.
C7_Original ==
    \A k \in 1..Len(split.cuts) : ~Nested(split.line, CutAt(k).from, CutAt(k).at)

\* C7, amended: while the tokenizer collects an entry, a separator inside a
\* bracket pair or a quoted region of that entry ends neither the entry nor
\* the statement; an options clause ends at the first statement separator
\* after it began, whatever brackets or quotes surround that separator.
C7_SeparatorsInert ==
    \A k \in 1..Len(split.cuts) :
       /\ Separator(CutAt(k).sep) /\ split.line[CutAt(k).at] = CutAt(k).sep
       /\ CutAt(k).mode = "Entry" =>
             ~Nested(split.line, CutAt(k).from, CutAt(k).at)
       /\ CutAt(k).mode = "Options" =>
             /\ CutAt(k).sep = DefaultSeparators.stmt
             /\ \A i \in (CutAt(k).from + 1)..(CutAt(k).at - 1) :
                   split.line[i] # DefaultSeparators.stmt

\* The whole line was tokenized without an error, and an Entry part holds a
\* separator, which therefore did not end it.
C7_Witness ==
    /\ split.done /\ split.err = NoError
    /\ \E k \in 1..Len(split.out) :
          /\ split.out[k].part = "Entry"
          /\ \E i \in 1..Len(split.out[k].text) : Separator(split.out[k].text[i])

\* the Entry part cut from the slice from + 1 .. to was emitted
Emitted(from, to) ==
    \E k \in 1..Len(split.out) :
       /\ split.out[k].part = "Entry"
       /\ split.out[k].from = from /\ split.out[k].to = to
       /\ split.out[k].text = trim_entry(SubSeq(split.line, from + 1, to),
                                         split.line[to])

EmptySlice(from, to) == trim_entry(SubSeq(split.line, from + 1, to), split.line[to]) = <<>>

\* C8 as stated: every slice ended by an entry, options or statement
\* separator is emitted as an Entry part, empty or not.
C8_Original ==
    \A k \in 1..Len(split.cuts) :
       CutAt(k).mode = "Entry" => Emitted(CutAt(k).from, CutAt(k).at)

\* C8, amended: every slice ended by an entry separator is emitted as an Entry
\* part, empty or not; a slice ended by an options or a statement separator is
\* emitted exactly when it is not empty after trimming.
C8_EmptySlices ==
    \A k \in 1..Len(split.cuts) :
       CutAt(k).mode = "Entry" =>
          IF CutAt(k).sep = DefaultSeparators.entry
          THEN Emitted(CutAt(k).from, CutAt(k).at)
          ELSE Emitted(CutAt(k).from, CutAt(k).at)
                  <=> ~EmptySlice(CutAt(k).from, CutAt(k).at)

\* An entry separator ended an empty slice, and the empty Entry is among the
\* parts.
C8_Witness ==
    \E k \in 1..Len(split.cuts) :
       /\ CutAt(k).mode = "Entry" /\ CutAt(k).sep = DefaultSeparators.entry
       /\ EmptySlice(CutAt(k).from, CutAt(k).at)
       /\ Emitted(CutAt(k).from, CutAt(k).at)

\* the closer c closes the opener o under the rule of the claim
Closes(o, c) ==
    \/ o \in {"(", "["} /\ c \in {")", "]"}
    \/ o = "{" /\ c = "}"

\* What the rule of the claim makes of line, read from position i on with
\* the brackets `open` and inside a quoted region or not; the positions in
\* skip are not read.  With strict, an open bracket at the end of the line is
\* unbalanced nesting even inside an unterminated quoted region.
RECURSIVE Brackets(_, _, _, _, _, _)
Brackets(line, skip, strict, i, open, quoted) ==
    IF i > Len(line)
    THEN IF quoted /\ ~(strict /\ open # <<>>) THEN "UnclosedString"
         ELSE IF open # <<>> THEN "UnbalancedNesting"
         ELSE "None"
    ELSE IF i \in skip THEN Brackets(line, skip, strict, i + 1, open, quoted)
    ELSE IF quoted THEN Brackets(line, skip, strict, i + 1, open, line[i] # "\"")
    ELSE IF line[i] = "\"" THEN Brackets(line, skip, strict, i + 1, open, TRUE)
    ELSE IF line[i] \in Openers
    THEN Brackets(line, skip, strict, i + 1, Append(open, line[i]), FALSE)
    ELSE IF line[i] \in Closers
    THEN IF open # <<>> /\ Closes(open[Len(open)], line[i])
         THEN Brackets(line, skip, strict, i + 1, SubSeq(open, 1, Len(open) - 1), FALSE)
         ELSE "UnbalancedNesting"
    ELSE Brackets(line, skip, strict, i + 1, open, FALSE)

\* the positions of the options clauses among the parts emitted
OptionsText ==
    UNION {(split.out[k].from + 1)..split.out[k].to :
              k \in {j \in 1..Len(split.out) : split.out[j].part = "Options"}}

\* no Entry part was cut from a slice with a bracket still open
EntriesClosed ==
    \A k \in 1..Len(split.out) :
       split.out[k].part = "Entry" =>
          Depth(split.line, split.out[k].from, split.out[k].to + 1) = 0

\* C9 as stated: outside quoted regions the brackets of the line are matched
\* by the rule, and a closer the rule rejects, a closer without an open
\* bracket and a bracket open at the end of the line each give an
\* UnbalancedNesting error; no Entry is emitted with a bracket open.
C9_Original ==
    /\ EntriesClosed
    /\ split.done =>
          (split.err.kind = "UnbalancedNesting"
              <=> Brackets(split.line, {}, TRUE, 1, <<>>, FALSE) = "UnbalancedNesting")

\* C9, amended: outside quoted regions and outside options clauses, whose
\* text is not scanned, the brackets of the line are matched by the rule, and
\* a closer the rule rejects, a closer without an open bracket and a bracket
\* open at the end of the line each give an UnbalancedNesting error, unless an
\* unterminated quote gave UnclosedString; no Entry is emitted with a bracket
\* open.
C9_BracketMatching ==
    /\ EntriesClosed
    /\ split.done =>
          split.err.kind = Brackets(split.line, OptionsText, FALSE, 1, <<>>, FALSE)

\* A round bracket was closed by a square one, or a square by a round one,
\* and the Entry around them was emitted.
C9_Witness ==
    /\ split.done /\ split.err = NoError
    /\ \E k \in 1..Len(split.out) :
          /\ split.out[k].part = "Entry"
          /\ \E i \in 1..Len(split.out[k].text) :
                /\ i < Len(split.out[k].text)
                /\ <<split.out[k].text[i], split.out[k].text[i + 1]>>
                      \in {<<"(", "]">>, <<"[", ")">>}

-----------------------------------------------------------------------------
(* The claims about Options::from_str, on SpecOpt                          *)

\* C10: a string of the shape the options grammar accepts is rejected with
\* Error::Options when a flag letter occurs twice or `e` and `E` both occur;
\* any other gives Options with repeating, keep_order and push set exactly for
\* the letters r, o and p in it, wherever they stand and whatever whitespace
\* lies between them.
C10_FlagsChecked ==
    (task.fn = "Options::from_str" /\ task.done /\ OptionsCaptures(task.arg).matched) =>
       IF \/ \E c \in FlagChars : CountChar(task.arg, c) > 1
          \/ CountChar(task.arg, "e") > 0 /\ CountChar(task.arg, "E") > 0
       THEN ~task.ret.ok
       ELSE /\ task.ret.ok \/ task.ret.error = "Bad amount"
            /\ task.ret.ok =>
                  /\ task.ret.repeating = (CountChar(task.arg, "r") = 1)
                  /\ task.ret.keep_order = (CountChar(task.arg, "o") = 1)
                  /\ task.ret.push = (CountChar(task.arg, "p") = 1)

\* the amount token at the head of an options string: `all`, or the digits
\* the string starts with
AmountToken(s) ==
    IF StartsWith(s, <<"a", "l", "l">>) THEN <<"a", "l", "l">>
    ELSE SubSeq(s, 1, PrefixIn(s, Digits))

AfterAmount(s) == SubSeq(s, Len(AmountToken(s)) + 1, Len(s))

\* flag letters, each at most once and not both e and E, with spaces among them
FlagsOnly(t) ==
    /\ \A i \in 1..Len(t) : t[i] \in FlagChars \cup {" "}
    /\ \A c \in FlagChars : CountChar(t, c) <= 1
    /\ CountChar(t, "e") = 0 \/ CountChar(t, "E") = 0

\* C11: Options::from_str accepts the amount `all`, alone or followed by
\* flags, and yields Amount::All; accepts `0` and yields N(0); accepts a
\* positive decimal integer without leading zero and yields N(k); a missing
\* amount yields N(1), so the empty string gives Options::default(); a number
\* with a leading zero is rejected.
C11_AmountToken ==
    (task.fn = "Options::from_str" /\ task.done) =>
       LET tok  == AmountToken(task.arg)
           rest == AfterAmount(task.arg)
       IN  /\ (tok = <<"a", "l", "l">> /\ (rest = <<>> \/ rest[1] = " ") /\ FlagsOnly(rest))
                 => task.ret.ok /\ task.ret.amount = Amount_All
           /\ (tok = <<"0">> /\ FlagsOnly(rest))
                 => task.ret.ok /\ task.ret.amount = Amount_N(0)
           /\ (tok # <<>> /\ tok[1] \in Digits \ {"0"} /\ FlagsOnly(rest))
                 => task.ret.ok /\ task.ret.amount = Amount_N(DecValue(tok))
           /\ (tok = <<>> /\ FlagsOnly(rest))
                 => task.ret.ok /\ task.ret.amount = Amount_N(1)
           /\ task.arg = <<>> => task.ret = Options_default
           /\ (Len(tok) > 1 /\ tok[1] = "0") => ~task.ret.ok

-----------------------------------------------------------------------------
(* The claims about select, on SpecSel                                     *)

\* a call of select, of either file, has returned
Selected == task.fn \in {"select", "eval::select"} /\ task.done

\* the amount asked for, All being the size of the population
Asked == select_amount(task.arg.entries, task.arg.options)

\* C12: whenever keep_order is set, select returns its entries in
\* non-decreasing order of insertion index; without replacement and with an
\* amount equal to the size of the population it returns exactly the input
\* list, in the original order, nothing twice and nothing missing.
C12_OrderPreserved ==
    (Selected /\ task.arg.options.keep_order) =>
       /\ \A i \in 1..(Len(task.ret.v) - 1) : task.ret.v[i].id <= task.ret.v[i + 1].id
       /\ (~task.arg.options.repeating /\ Asked = Len(task.arg.entries))
             => task.ret.v = task.arg.entries

\* keep_order put a sample of several entries back into insertion order
C12_Witness ==
    /\ Selected /\ task.arg.options.keep_order
    /\ Len(task.ret.v) >= 2 /\ Len(task.ret.v) < Len(task.arg.entries)
    /\ choose_multiple(task.arg.rng, task.arg.entries, Asked).v # task.ret.v

\* C13: for a population that is not empty and options with repeating set and
\* amount N(n), select returns exactly n elements for every n (n = 0, n equal
\* to and n greater than the size of the population included), and every
\* element returned is an entry of the population, index and content.
C13_WithReplacement ==
    (/\ Selected /\ task.arg.entries # <<>>
     /\ task.arg.options.repeating /\ ~task.arg.options.amount.all) =>
       /\ Len(task.ret.v) = task.arg.options.amount.n
       /\ \A i \in 1..Len(task.ret.v) :
             \E j \in 1..Len(task.arg.entries) : task.ret.v[i] = task.arg.entries[j]

\* more was asked for than the population holds, and an entry came twice
C13_Witness ==
    /\ Selected /\ task.arg.options.repeating /\ ~task.arg.options.amount.all
    /\ task.arg.options.amount.n > Len(task.arg.entries)
    /\ Len(task.arg.entries) >= 2
    /\ \E i, j \in 1..Len(task.ret.v) : i < j /\ task.ret.v[i] = task.ret.v[j]

\* C14: when repeating is not set, select returns pairwise distinct insertion
\* indices and exactly min(n, size of the population) elements, for every
\* amount n asked for, n larger than the population included.
C14_WithoutReplacement ==
    (Selected /\ ~task.arg.options.repeating) =>
       /\ \A i, j \in 1..Len(task.ret.v) : i # j => task.ret.v[i].id # task.ret.v[j].id
       /\ Len(task.ret.v) = IF Asked < Len(task.arg.entries) THEN Asked
                            ELSE Len(task.arg.entries)

\* more was asked for than the population holds
C14_Witness ==
    /\ Selected /\ ~task.arg.options.repeating
    /\ Len(task.arg.entries) >= 2 /\ Asked > Len(task.arg.entries)
    /\ Len(task.ret.v) = Len(task.arg.entries)

\* C15: the whole-population shortcut of select is taken only when sampling
\* is not repeating: with repeating set and an amount equal to the size of the
\* population (at least 2), select makes independent draws with replacement
\* (and so can return an insertion index twice), never a permutation of the
\* population.
C15_ShortcutNotRepeating ==
    (/\ Selected /\ task.arg.options.repeating
     /\ Len(task.arg.entries) >= 2 /\ Asked = Len(task.arg.entries)) =>
       task.ret = select_general(task.arg.rng, task.arg.entries, task.arg.options, Asked)

-----------------------------------------------------------------------------
(* The claims about dice, on SpecDice                                      *)

\* Roll::eval has returned (or, with halts FALSE, cannot return)
Rolled == task.fn = "Roll::eval" /\ task.done

\* the sum of the values of the dice that are not dropped
Kept(dice) ==
    SumSeq([i \in 1..Len(dice) |-> IF dice[i].drop THEN 0 ELSE dice[i].val])

\* C16: for every valid Roll and every outcome of the generator, each die of
\* the result lies in [1, sides], at least `amount` dice are present (exactly
\* `amount` when the roll is not exploding, so the list is never empty), and
\* total equals the sum of the values of the dice not dropped plus the modifier.
C16_DiceResult ==
    (Rolled /\ task.ret.halts) =>
       /\ \A i \in 1..Len(task.ret.dice) : task.ret.dice[i].val \in 1..task.arg.roll.sides
       /\ Len(task.ret.dice) >= task.arg.roll.amount
       /\ ~task.arg.roll.exploding => Len(task.ret.dice) = task.arg.roll.amount
       /\ task.ret.dice # <<>>
       /\ task.ret.total.res = "Ok"
       /\ task.arg.roll.modifier <= I32Max - Kept(task.ret.dice)
       /\ task.ret.total.v = Kept(task.ret.dice) + task.arg.roll.modifier

\* C17: evaluating an exploding roll always finishes after finitely many die
\* rolls, the roll `1d1!`, whose every die shows its highest face, included.
C17_ExplodingTerminates ==
    (Rolled /\ task.arg.roll.exploding) => task.ret.halts

\* digits that stand for 0
AllZero(digits) == digits # <<>> /\ \A i \in 1..Len(digits) : digits[i] = "0"

\* digits that stand for a number beyond u16
OverU16(digits) ==
    DecGreater(TrimStartIn(digits, {"0"}), <<"6", "5", "5", "3", "5">>)

\* the text has the shape of a dice expression, and its amount, sides or
\* select amount is 0 or does not fit u16
InvalidDice(text) ==
    LET bad(cap) ==
            /\ cap.matched
            /\ \/ AllZero(cap.amount) \/ OverU16(cap.amount)
               \/ AllZero(cap.sides) \/ OverU16(cap.sides)
               \/ cap.select /\ (AllZero(cap.selamt) \/ OverU16(cap.selamt))
    IN  bad(RollCaptures(text))

\* C18: when a text matches the dice shape but has amount 0, sides 0, select
\* amount 0, or an amount, sides or select amount that does not fit u16,
\* Roll::from_str returns Invalid, never NoMatch, and parse_expr returns
\* Error::Expr with the message of the roll: it does not go on to the
\* interval recognizer and does not classify the entry as text.
C18_InvalidDiceHardError ==
    (task.fn \in {"Roll::from_str", "parse_expr"} /\ task.done
        /\ InvalidDice(task.arg.text)) =>
       /\ task.fn = "Roll::from_str" => task.ret.res = "Invalid"
       /\ task.fn = "parse_expr" =>
             /\ task.ret.res = "Err"
             /\ task.ret.error.kind = "Expr"
             /\ task.ret.error.msg \in {"bad amount", "amount can't be 0",
                                       "bad number of sides", "number of sides can't be 0",
                                       "bad select amount", "select amount can't be 0"}

\* parse_expr has refused a roll whose select amount does not fit u16
C18_Witness ==
    /\ task.fn = "parse_expr" /\ task.done
    /\ task.arg.text = <<"2", "d", "2", "k", "6", "5", "5", "3", "6">>
    /\ task.ret.res = "Err" /\ task.ret.error.msg = "bad select amount"

\* C19: for n >= 1 and s >= 1 that fit u16, parsing `{n}d{s}` and rendering
\* the Roll gives `{n}d{s}` when n > 1 and `d{s}` when n = 1; and parsing the
\* rendering of any parsed Roll gives back an equal Roll.
C19_RoundTrip ==
    (task.fn = "Roll::fmt" /\ task.done) =>
       /\ Roll_from_str(task.ret) = ParseOk(task.arg.roll)
       /\ task.arg.text = NatToText(task.arg.roll.amount) \o <<"d">>
                             \o NatToText(task.arg.roll.sides)
             => task.ret = IF task.arg.roll.amount > 1 THEN task.arg.text
                           ELSE <<"d">> \o NatToText(task.arg.roll.sides)

\* `1d65535` was rendered as `d65535`
C19_Witness ==
    /\ task.fn = "Roll::fmt" /\ task.done
    /\ task.arg.text = <<"1", "d", "6", "5", "5", "3", "5">>
    /\ task.ret = <<"d", "6", "5", "5", "3", "5">>

-----------------------------------------------------------------------------
(* The claims about integer intervals, on SpecInt                          *)

\* both bounds are written with numbers of i32
BoundsFit == IntFits(task.arg.lo) /\ IntFits(task.arg.hi)

\* one of the +1 adjustments overflows i32
AdjustOverflows ==
    \/ ~task.arg.low_inc /\ IntValue(task.arg.lo) = I32Max
    \/ task.arg.high_inc /\ IntValue(task.arg.hi) = I32Max

\* the ends of the half-open range [lo + (1 if low-exclusive), hi + (1 if
\* high-inclusive))
CanonStart == IntValue(task.arg.lo) + (IF task.arg.low_inc THEN 0 ELSE 1)
CanonEnd == IntValue(task.arg.hi) + (IF task.arg.high_inc THEN 1 ELSE 0)

\* C20: parsing an integer interval with bounds lo, hi (numbers of i32) yields
\* the half-open range [lo + (1 if low-exclusive), hi + (1 if high-inclusive));
\* parsing fails with Invalid exactly when that range is empty or one of the
\* +1 adjustments overflows i32; every sample of an accepted interval lies
\* inside the canonical range.
C20_IntCanonical ==
    /\ (task.fn = "Interval::from_str" /\ task.done /\ BoundsFit) =>
          IF AdjustOverflows \/ ~(CanonStart < CanonEnd)
          THEN task.ret.res = "Invalid"
          ELSE /\ task.ret.res = "Ok"
               /\ task.ret.v.kind = "Int"
               /\ task.ret.v.start = CanonStart /\ task.ret.v.end = CanonEnd
               /\ task.ret.v.low_inc = task.arg.low_inc
               /\ task.ret.v.high_inc = task.arg.high_inc
    /\ (task.fn = "Interval::eval" /\ task.done) =>
          /\ task.ret.value.kind = "Int"
          /\ CanonStart <= task.ret.value.int /\ task.ret.value.int < CanonEnd

\* `(-2..1]` was sampled at its highest value, 1
C20_Witness ==
    /\ task.fn = "Interval::eval" /\ task.done
    /\ task.arg.text = <<"(", "-", "2", ".", ".", "1", "]">>
    /\ task.ret.interval.start = -1 /\ task.ret.interval.end = 2
    /\ task.ret.value.int = 1

-----------------------------------------------------------------------------
(* The interpreter's claims, on Spec                                       *)

\* some output of a call holds a sample of the kind
HasSample(outputs, kind) ==
    \E k \in 1..Len(outputs) : \E j \in 1..Len(outputs[k]) : outputs[k][j].kind = kind

PartsOf(line) == split_line_parts(line, DefaultSeparators).out

\* the number of statement separators that took effect in a line
EndStmts(parts) == Cardinality({i \in 1..Len(parts) : parts[i].part = "EndStmt"})

\* the line ends in an options clause that no statement separator follows
OptionsLast(parts) == parts # <<>> /\ parts[Len(parts)].part = "Options"

\* the statements a line finalizes by itself
Finalized(parts) == EndStmts(parts) + (IF OptionsLast(parts) THEN 1 ELSE 0)

\* the entries of the n-th statement of a line that add_entry keeps, from part i on
RECURSIVE StmtEntries(_, _, _)
StmtEntries(parts, n, i) ==
    IF i > Len(parts) THEN <<>>
    ELSE IF parts[i].part = "EndStmt"
    THEN IF n = 1 THEN <<>> ELSE StmtEntries(parts, n - 1, i + 1)
    ELSE IF n = 1 /\ parts[i].part = "Entry" /\ Trim(parts[i].text) # <<>>
    THEN <<Trim(parts[i].text)>> \o StmtEntries(parts, 1, i + 1)
    ELSE StmtEntries(parts, n, i + 1)

RECURSIVE FinalizedIn(_, _)
FinalizedIn(lines, i) ==
    IF i > Len(lines) THEN 0
    ELSE Finalized(PartsOf(lines[i])) + FinalizedIn(lines, i + 1)

\* the stack the last statement of a call left, or base when it ran none
LeftBy(stmts, base) == IF stmts = <<>> THEN base ELSE stmts[Len(stmts)].stack

AB == <<"a", "\n", "b">>

\* C2 as stated: when run_line returns, a statement has been finalized for the
\* entries that were pending at the end of the line, so that none of them is
\* pending any more, and run("a\nb") yields two statement outputs.
C2_Original ==
    [][/\ (ret'.call = "run_line" /\ ret'.res = "Ok") =>
             /\ state'.stack = LeftBy(ret'.stmts, <<>>)
             /\ StmtEntries(PartsOf(ret'.arg), EndStmts(PartsOf(ret'.arg)) + 1, 1) # <<>>
                   => Len(ret'.stmts) = EndStmts(PartsOf(ret'.arg)) + 1
       /\ (ret'.call = "run" /\ ret'.arg = AB) => Len(ret'.outputs) = 2]_vars

\* C2: the end of a line finalizes a statement only after an options clause.
\* A run_line that returns Ok has finalized one statement for each statement
\* separator of the line and one more when the line ends in an options clause;
\* the entries after the last statement separator of a line without such a
\* clause stay pending, behind what the stack held, for the next line.  run
\* finalizes what its lines finalize and at most one statement more, at its
\* eof: run("a\nb") yields one output, selected from a and b.
C2_EndOfLine ==
    [][/\ (ret'.call = "run_line" /\ ret'.res = "Ok") =>
             LET parts == PartsOf(ret'.arg)
             IN  /\ Len(ret'.stmts) = Finalized(parts)
                 /\ state'.stack =
                       LeftBy(ret'.stmts, state.stack)
                          \o (IF OptionsLast(parts) THEN <<>>
                              ELSE StmtEntries(parts, EndStmts(parts) + 1, 1))
       /\ (ret'.call = "run" /\ ret'.res = "Ok") =>
             /\ Len(ret'.stmts) - FinalizedIn(Lines(ret'.arg), 1) \in {0, 1}
             /\ ret'.arg = AB =>
                   /\ Len(ret'.outputs) = 1
                   /\ ret'.stmts[1].pending = <<<<"a">>, <<"b">>>>]_vars

\* The line `a` was run: no statement was finalized and `a` is pending.
C2_Witness ==
    /\ ret.call = "run_line" /\ ret.arg = <<"a">> /\ ret.res = "Ok"
    /\ ret.stmts = <<>>
    /\ state.stack # <<>> /\ state.stack[Len(state.stack)] = <<"a">>

\* the entry each sample of a statement was selected from
SelectedFrom(st, k) == st.pending[st.selected[k] + 1]

\* C3: a statement finalized with eval_expr = Auto evaluates its entries as
\* expressions iff exactly one entry is pending then, the empty entries that
\* add_entry dropped not being among them; with Custom(b) it does iff b.
\* Evaluated, every pending entry is parsed, and the statement fails iff one
\* of them is an invalid expression; otherwise every sample is the text.
C3_AutoPolicy ==
    \A k \in 1..Len(ret.stmts) :
       LET st     == ret.stmts[k]
           policy == IF st.options.eval_expr = "Auto" THEN Len(st.pending) = 1
                     ELSE st.options.eval_expr = "True"
       IN  /\ st.eval_expr = policy
           /\ \A i \in 1..Len(st.pending) :
                 st.pending[i] # <<>> /\ Trim(st.pending[i]) = st.pending[i]
           /\ Len(st.samples) = Len(st.selected)
           /\ IF policy
              THEN /\ st.res = "Err" <=>
                         \E i \in 1..Len(st.pending) : parse_expr(st.pending[i]).res = "Err"
                   /\ \A j \in 1..Len(st.samples) :
                         st.samples[j].kind = parse_expr(SelectedFrom(st, j)).data.kind
              ELSE /\ st.res = "Ok"
                   /\ \A j \in 1..Len(st.samples) :
                         st.samples[j] = Entry_Text(SelectedFrom(st, j))

\* The line `,d2;` was run on an empty stack: its empty entry does not count,
\* d2 is the one entry pending and is rolled; and a statement with two entries
\* pending, one of them `coin`, gave text under Auto.
C3_Witness ==
    \/ /\ ret.call = "run_line" /\ ret.arg = <<",", "d", "2", ";">>
       /\ Len(ret.stmts) = 1
       /\ ret.stmts[1].options.eval_expr = "Auto"
       /\ ret.stmts[1].pending = <<<<"d", "2">>>>
       /\ ret.stmts[1].samples[1].kind = "Dice"
    \/ /\ ret.call = "eof" /\ Len(ret.stmts) = 1
       /\ ret.stmts[1].pending = <<<<"a">>, <<"c", "o", "i", "n">>>>
       /\ ret.stmts[1].samples[1].kind = "Text"

\* Options::default as the claim spells it out
IsDefault(options) ==
    /\ options.amount = Amount_N(1) /\ ~options.repeating /\ ~options.keep_order
    /\ options.eval_expr = "Auto" /\ ~options.push

\* what every eof does, whatever it returns
EofFrame ==
    /\ state.stack = <<>> => ret'.res = "None" /\ ret'.outputs = <<>> /\ state' = state
    /\ state.stack # <<>> =>
          /\ Len(ret'.stmts) = 1
          /\ ret'.stmts[1].pending = state.stack
          /\ IsDefault(ret'.stmts[1].options)
          /\ state'.stack = <<>>
    /\ ret.call = "eof" => ret'.res = "None"

\* C4 as stated: an eof on a stack that is not empty returns exactly one output.
C4_Original ==
    [][ret'.call = "eof" =>
          /\ EofFrame
          /\ state.stack # <<>> => ret'.res = "Some" /\ Len(ret'.outputs) = 1]_vars

\* C4: on an empty stack eof returns None and changes neither the stack nor
\* the RNG.  On any other it finalizes one statement with the default options
\* (amount 1, no replacement, no keep_order, Auto, no push) and leaves the
\* stack empty, so that an eof right after it returns None; it returns exactly
\* one output, of one sample, unless the one pending entry is an invalid
\* expression, and then it returns that Expr error and no output.
C4_Eof ==
    [][ret'.call = "eof" =>
          /\ EofFrame
          /\ state.stack # <<>> =>
                \/ /\ ret'.res = "Some" /\ Len(ret'.outputs) = 1
                   /\ Len(ret'.outputs[1]) = 1
                \/ /\ ret'.res = "Err" /\ ret'.error.kind = "Expr"
                   /\ ret'.outputs = <<>>
                   /\ Len(state.stack) = 1
                   /\ parse_expr(state.stack[1]).res = "Err"]_vars

\* eof found `d0` pending, returned the Expr error and left the stack empty.
C4_Witness ==
    /\ ret.call = "eof" /\ ret.res = "Err"
    /\ ret.stmts[1].pending = <<<<"d", "0">>>>
    /\ state.stack = <<>>

\* C5: an end_stmt that returns Ok without the push flag leaves the stack
\* empty and returns its samples; with the push flag it returns an empty
\* StmtOutput and leaves on the stack exactly its evaluated samples, as text,
\* in selection order.  The next statement of the line finds pending what was
\* left and the entries of its own, and selects among those.
C5_StackAfterFinalize ==
    \A k \in 1..Len(ret.stmts) :
       LET st == ret.stmts[k]
       IN  /\ st.res = "Ok" =>
                IF st.options.push
                THEN /\ st.returned = <<>>
                     /\ st.stack = [j \in 1..Len(st.samples) |-> into_raw(st.samples[j])]
                ELSE /\ st.returned = st.samples
                     /\ st.stack = <<>>
           /\ \A j \in 1..Len(st.selected) : st.selected[j] \in 0..(Len(st.pending) - 1)
           /\ (ret.call = "run_line" /\ k > 1) =>
                 st.pending = ret.stmts[k - 1].stack \o StmtEntries(PartsOf(ret.arg), k, 1)
           /\ (ret.call \in {"run_line", "eof"} /\ k = Len(ret.stmts)) =>
                 SubSeq(state.stack, 1, Len(st.stack)) = st.stack

\* `/2p` found `coin` pending, tossed it and left the side it fell on, alone,
\* on the stack; nothing was returned.
C5_Witness ==
    /\ ret.call = "run_line" /\ ret.res = "Ok" /\ Len(ret.stmts) = 1
    /\ ret.stmts[1].options.push
    /\ Len(ret.stmts[1].samples) = 1
    /\ ret.stmts[1].samples[1].kind = "Coin"
    /\ ret.outputs = <<<<>>>>
    /\ state.stack = <<into_raw(ret.stmts[1].samples[1])>>

\* what the statements of a call that returned Ok returned, in order
Delivered(r) == [k \in 1..Len(r.stmts) |-> r.stmts[k].returned]

\* the statements of a call before the one that failed
Earlier(r) ==
    IF r.stmts # <<>> /\ r.stmts[Len(r.stmts)].res = "Err"
    THEN SubSeq(r.stmts, 1, Len(r.stmts) - 1) ELSE r.stmts

\* C6 as stated: when a statement of a run_line or of a run fails, the outputs
\* of the statements before it are still delivered.
C6_Original ==
    (ret.call \in {"run_line", "run"} /\ ret.res = "Err") =>
       ret.outputs = [k \in 1..Len(Earlier(ret)) |-> Earlier(ret)[k].returned]

\* C6: run_line and run deliver the outputs of their statements, one for each
\* in order, when every statement succeeds; when one fails (tokenize, options
\* or expression error) the call returns the error alone, and the outputs of
\* the statements it had finalized before are not delivered.
C6_ErrorDropsOutputs ==
    ret.call \in {"run_line", "run"} =>
       /\ ret.res = "Ok" => ret.outputs = Delivered(ret)
       /\ ret.res = "Err" => ret.outputs = <<>>

\* A line failed after a statement of it had selected a sample.
C6_Witness ==
    /\ ret.call = "run_line" /\ ret.res = "Err"
    /\ Earlier(ret) # <<>>
    /\ Earlier(ret)[1].res = "Ok" /\ Earlier(ret)[1].returned # <<>>
    /\ ret.outputs = <<>>

-----------------------------------------------------------------------------
(* The interpreter's claims about errors, on Spec                          *)

\* the call that returns in this step is a run_line that the options of a
\* statement failed
OptionsFailed(r) == r.call = "run_line" /\ r.res = "Err" /\ r.error.kind = "Options"

\* the place of the first Options part among the parts, or 0
FirstOptions(parts, n) ==
    LET at == {i \in 1..Len(parts) : parts[i].part = "Options" /\ EndStmts(SubSeq(parts, 1, i)) = n - 1}
    IN  IF at = {} THEN 0 ELSE CHOOSE i \in at : \A j \in at : i <= j

\* the State after the parts of a line that come before the options clause of
\* its n-th statement
BeforeOptions(self, line, n) ==
    LET cut(sp) ==
            run_parts(self, [sp EXCEPT !.out = SubSeq(sp.out, 1, FirstOptions(sp.out, n) - 1),
                                       !.err = NoError],
                      1, None_options, <<>>, <<>>)
    IN  cut(split_line_parts(line, self.sep)).state

\* C21: when run_line returns an Options error for a statement, the entries
\* of that statement that came before its options clause stay on the stack
\* after what the statements before it left, and the RNG is where those
\* statements left it; the next statement that is finalized finds them
\* pending together with its own entries.
C21_OptionsErrorKeepsEntries ==
    [][/\ OptionsFailed(ret') =>
             /\ state'.stack =
                   LeftBy(ret'.stmts, state.stack)
                      \o StmtEntries(PartsOf(ret'.arg), Len(ret'.stmts) + 1, 1)
             /\ ret'.stmts = <<>> => state'.rng = state.rng
             /\ state' = BeforeOptions(state, ret'.arg, Len(ret'.stmts) + 1)
       /\ (OptionsFailed(ret) /\ ret'.call \in {"run_line", "eof"} /\ ret'.stmts # <<>>) =>
             ret'.stmts[1].pending =
                state.stack \o (IF ret'.call = "run_line"
                                THEN StmtEntries(PartsOf(ret'.arg), 1, 1) ELSE <<>>)
      ]_vars

\* `a/x` failed on its options and left `a` pending on a stack that was empty.
C21_Witness ==
    /\ OptionsFailed(ret)
    /\ ret.arg = <<"a", "/", "x">>
    /\ ret.stmts = <<>>
    /\ state.stack = <<<<"a">>>>

-----------------------------------------------------------------------------
(* More claims about the tokenizer, on SpecTok                             *)

\* C22: when tokenization fails with UnclosedString, the `start` of the error
\* is the offset of the opening quote: the character at that offset is a `"`
\* and no `"` comes after it in the line.
C22_UnclosedStringStart ==
    split.err.kind = "UnclosedString" =>
       /\ split.err.at < Len(split.line)
       /\ split.line[split.err.at + 1] = "\""
       /\ \A j \in (split.err.at + 2)..Len(split.line) : split.line[j] # "\""

\* the Options parts among the parts emitted
OptionsParts == {k \in 1..Len(split.out) : split.out[k].part = "Options"}

\* every Options part is the last part or has EndStmt next
OptionsThenEndStmt ==
    \A k \in OptionsParts : k = Len(split.out) \/ split.out[k + 1].part = "EndStmt"

\* C23 as stated: every options separator of the line at nesting depth 0
\* produces exactly one Options token, and every Options token is followed at
\* once by EndStmt or by the end of the tokens.
C23_Original ==
    /\ OptionsThenEndStmt
    /\ (split.done /\ split.err = NoError) =>
          Cardinality({i \in 1..Len(split.line) :
                          /\ split.line[i] = DefaultSeparators.options
                          /\ ~Nested(split.line, 0, i)})
             = Cardinality(OptionsParts)

\* the options separators that took effect
OptionsCuts ==
    {k \in 1..Len(split.cuts) : CutAt(k).sep = DefaultSeparators.options}

\* C23, amended: every options separator that the tokenizer meets while it
\* collects an entry, at nesting depth 0 and outside a quoted region, produces
\* exactly one Options token (possibly empty: `a /` gives Entry `a`, Options
\* ``), which takes the line up to the next statement separator or the end of
\* the line, further options separators included; every Options token is
\* followed at once by EndStmt or by the end of the tokens, so that two Options
\* tokens always have an EndStmt between them.
C23_OneOptionsPerStmt ==
    /\ OptionsThenEndStmt
    /\ Cardinality(OptionsCuts)
          = Cardinality(OptionsParts) + (IF split.mode = "Options" THEN 1 ELSE 0)
    /\ \A k \in OptionsParts :
          /\ \E c \in OptionsCuts : CutAt(c).at = split.out[k].from
          /\ split.out[k].to = Len(split.line)
                \/ split.line[split.out[k].to] = DefaultSeparators.stmt
          /\ \A i \in (split.out[k].from + 1)..(split.out[k].to - 1) :
                split.line[i] # DefaultSeparators.stmt
          /\ split.out[k].text
                = Trim(TrimEndIn(SubSeq(split.line, split.out[k].from + 1, split.out[k].to),
                                 {DefaultSeparators.stmt}))
    /\ \A j \in OptionsParts, k \in OptionsParts :
          j < k => \E m \in (j + 1)..(k - 1) : split.out[m].part = "EndStmt"

\* `a /` gave the Entry `a` and an empty Options.
C23_Witness ==
    /\ split.done /\ split.err = NoError
    /\ split.line = <<"a", " ", "/">>
    /\ Len(split.out) = 2
    /\ split.out[1].part = "Entry" /\ split.out[1].text = <<"a">>
    /\ split.out[2].part = "Options" /\ split.out[2].text = <<>>

-----------------------------------------------------------------------------
(* More claims about dice, on SpecDice                                     *)

\* the text is a dice expression whose signed modifiers each fit i32 while
\* their sum does not
ModifierSumOverflows(text) ==
    /\ RollCaptures(text).matched
    /\ \A i \in 1..Len(RollCaptures(text).mods) : ModifierFits(RollCaptures(text).mods[i])
    /\ modifier_sum(RollCaptures(text).mods).overflow

\* C24: when the signed modifiers of a dice expression each fit i32 and their
\* sum does not, Roll::from_str returns Invalid: it neither panics nor yields
\* a roll with a wrapped modifier.
C24_ModifierOverflowInvalid ==
    (task.fn = "Roll::from_str" /\ task.done /\ ModifierSumOverflows(task.arg.text)) =>
       task.ret.res = "Invalid"

\* the places of the dice of the result that are not dropped, and of those
\* that are
KeptDice == {i \in 1..Len(task.ret.dice) : ~task.ret.dice[i].drop}
DroppedDice == {i \in 1..Len(task.ret.dice) : task.ret.dice[i].drop}

Min(a, b) == IF a < b THEN a ELSE b
Max(a, b) == IF a > b THEN a ELSE b

\* the select clause leaves the highest dice: keep-high and drop-low
LeavesHigh(sel) ==
    \/ sel.action = "Keep" /\ sel.which = "High"
    \/ sel.action = "Drop" /\ sel.which = "Low"

\* C25: with m dice rolled and select amount n, Keep leaves exactly min(n, m)
\* dice not dropped and Drop exactly max(m - n, 0); the dice left are the
\* highest for keep-high and drop-low (no dropped die is higher than one that
\* is left) and the lowest for keep-low and drop-high; `k` alone is keep high,
\* `d` alone is drop low, and a missing select amount is 1.
C25_SelectClause ==
    (Rolled /\ task.ret.halts /\ task.arg.roll.select.some) =>
       LET sel == task.arg.roll.select
           m   == Len(task.ret.dice)
           cap == RollCaptures(task.arg.text)
       IN  /\ Cardinality(KeptDice)
                 = IF sel.action = "Keep" THEN Min(sel.amount, m)
                   ELSE Max(m - sel.amount, 0)
           /\ \A i \in KeptDice, j \in DroppedDice :
                 IF LeavesHigh(sel)
                 THEN task.ret.dice[i].val >= task.ret.dice[j].val
                 ELSE task.ret.dice[i].val <= task.ret.dice[j].val
           /\ cap.kind = <<"k">> => sel.action = "Keep" /\ sel.which = "High"
           /\ cap.kind = <<"d">> => sel.action = "Drop" /\ sel.which = "Low"
           /\ cap.selamt = <<>> => sel.amount = 1

\* `2d2k` rolled a 1 and a 2 and dropped the 1.
C25_Witness ==
    /\ Rolled /\ task.ret.halts
    /\ task.arg.text = <<"2", "d", "2", "k">>
    /\ task.ret.dice = <<Die(1, TRUE), Die(2, FALSE)>>

-----------------------------------------------------------------------------
(* The claims about the bare range, on SpecRange                           *)

\* text has the form `low..high` or `low..=high`, with two dots
BareRange(text) ==
    \E i \in 1..Len(text) :
       /\ SignedDigits(SubSeq(text, 1, i))
       /\ Len(text) >= i + 3
       /\ text[i + 1] = "." /\ text[i + 2] = "."
       /\ \/ SignedDigits(SubSeq(text, i + 3, Len(text)))
          \/ text[i + 3] = "=" /\ SignedDigits(SubSeq(text, i + 4, Len(text)))

\* text is made of decimal digits only
OnlyDigits(text) == text # <<>> /\ \A i \in 1..Len(text) : text[i] \in Digits

\* C26: parse_range accepts only text of the form `low..high` or `low..=high`
\* with two dot characters between the integers and returns NoMatch for any
\* other; a text of decimal digits only is no interval for Interval::from_str
\* and parse_expr classifies it as text, without an error.
C26_BareRangeDots ==
    /\ (task.fn = "parse_range" /\ task.done /\ ~BareRange(task.arg.text)) =>
          task.ret.res = "NoMatch"
    /\ (task.fn = "Interval::from_str" /\ task.done /\ OnlyDigits(task.arg.text)) =>
          task.ret.res = "NoMatch"
    /\ (task.fn = "parse_expr" /\ task.done /\ OnlyDigits(task.arg.text)) =>
          task.ret.res = "Ok" /\ task.ret.data.kind = "Text"

-----------------------------------------------------------------------------
(* The interpreter's claims about expression errors, on Spec               *)

\* the entries of pending that are no valid expression
InvalidEntries(pending) == {i \in 1..Len(pending) : parse_expr(pending[i]).res = "Err"}

\* the places in pending of the entries that select takes from them, as
\* text, with the generator at rng
SelectedOf(pending, options, rng) ==
    LET taken(selected) == {selected.v[k].id + 1 : k \in 1..Len(selected.v)}
    IN  taken(select(rng, [i \in 1..Len(pending) |->
                             [id |-> i - 1, entry |-> EntryData_Text(pending[i])]],
                     options))

\* the first statement of the call that returns in this step failed
FirstStmtFailed(r) ==
    /\ r.call \in {"run_line", "eof"}
    /\ r.stmts # <<>> /\ r.stmts[1].res = "Err"

\* C27: with expression evaluation in effect an entry is classified only
\* after selection and only when it was selected: a statement fails for an
\* invalid expression only when select took an invalid entry, so an invalid
\* entry that is not selected does not make the statement fail.
C27_LazyClassification ==
    [][FirstStmtFailed(ret') =>
          SelectedOf(ret'.stmts[1].pending, ret'.stmts[1].options, state.rng)
             \cap InvalidEntries(ret'.stmts[1].pending) # {}
      ]_vars

\* the State after the parts of a line that come before its n-th statement
BeforeStmt(self, line, n) ==
    LET ends(sp) == {i \in 1..Len(sp.out) : EndStmts(SubSeq(sp.out, 1, i)) = n - 1}
        last(sp) == IF n = 1 THEN 0 ELSE CHOOSE i \in ends(sp) : \A j \in ends(sp) : i <= j
        cut(sp) ==
            run_parts(self, [sp EXCEPT !.out = SubSeq(sp.out, 1, last(sp)), !.err = NoError],
                      1, None_options, <<>>, <<>>)
    IN  cut(split_line_parts(line, self.sep)).state

\* C28: whether end_stmt fails with an expression error is decided by the
\* pending entries and the resolved evaluation policy alone: it fails exactly
\* when the policy holds and some pending entry is an invalid expression,
\* whatever the state of the RNG; when it fails, nothing of that statement was
\* selected, sampled or output, and the RNG is where the statements before it
\* left it.
C28_ExprErrorAllOrNothing ==
    [][/\ \A k \in 1..Len(ret'.stmts) :
             LET st == ret'.stmts[k]
             IN  /\ st.res = "Err" <=> (st.eval_expr /\ InvalidEntries(st.pending) # {})
                 /\ st.res = "Err" =>
                       /\ st.selected = <<>> /\ st.samples = <<>> /\ st.returned = <<>>
                       /\ ret'.res = "Err" /\ ret'.error.kind = "Expr"
                       /\ ret'.outputs = <<>>
                       /\ k = Len(ret'.stmts)
       /\ FirstStmtFailed(ret') => state'.rng = state.rng
       /\ (ret'.call = "run_line" /\ ret'.stmts # <<>>
             /\ ret'.stmts[Len(ret'.stmts)].res = "Err") =>
             state'.rng = BeforeStmt(state, ret'.arg, Len(ret'.stmts)).rng
      ]_vars

\* `a,d0/e` failed for `d0`, whichever of the two select would have taken.
C28_Witness ==
    /\ ret.call = "run_line" /\ ret.res = "Err" /\ ret.error.kind = "Expr"
    /\ ret.arg = <<"a", ",", "d", "0", "/", "e">>
    /\ Len(ret.stmts) = 1
    /\ ret.stmts[1].pending = <<<<"a">>, <<"d", "0">>>>
    /\ ret.outputs = <<>>

-----------------------------------------------------------------------------
(* More claims about integer intervals, on SpecInt                         *)

\* C29: the rendering of an Interval opens with `[` exactly when its low
\* bound is inclusive and closes with `]` exactly when its high bound is
\* inclusive, and parsing the rendering of a parsed integer interval gives
\* back an equal Interval.
C29_RenderingBothEnds ==
    (task.fn = "Interval::fmt" /\ task.done) =>
       /\ Head(task.ret) = (IF task.arg.interval.low_inc THEN "[" ELSE "(")
       /\ task.ret[Len(task.ret)] = (IF task.arg.interval.high_inc THEN "]" ELSE ")")
       /\ Interval_from_str(task.ret) = ParseOk(task.arg.interval)

-----------------------------------------------------------------------------
(* The claims about Entry::parse, on SpecEntry                             *)

\* the text starts and ends with the same quote character, is at least two
\* characters long, has no such character inside and no backslash before the
\* closing one
Delimited(text) ==
    /\ Len(text) >= 2
    /\ Head(text) \in QuoteChars /\ text[Len(text)] = Head(text)
    /\ \A i \in 2..(Len(text) - 1) : text[i] # Head(text)
    /\ text[Len(text) - 1] # "\\"

\* C30: Entry::parse does not panic on a text that no recognizer matches: the
\* entry is the text, without its delimiters exactly when it is delimited by
\* a pair of quotes as above; a text of one `'` or one `"` stays as it is.
C30_CleanStringNoPanic ==
    (task.fn = "Entry::parse" /\ task.done
       /\ expr_parse_expr(task.arg.text) = "None") =>
       /\ task.ret.res = "Ok" /\ task.ret.kind = "Text"
       /\ task.ret.text = IF Delimited(task.arg.text)
                          THEN SubSeq(task.arg.text, 2, Len(task.arg.text) - 1)
                          ELSE task.arg.text

=============================================================================
